---------------------------- MODULE Spec2Model ----------------------------
(***************************************************************************)
(* docker-pvc-migration: the volume matcher and the migration engine.      *)
(*                                                                         *)
(* Go strings are modelled as sequences of one-character strings, so that  *)
(* splitting, trimming, case folding, substring search and number parsing  *)
(* are computed and not assumed.                                           *)
(*                                                                         *)
(* src/internal/migration/engine.go holds two definitions of Engine:       *)
(* lines 18-458 (NewEngine(migrationNamespace, yamlDirectory)) and lines   *)
(* 473-740 (NewEngine(namespace), the one src/main.go calls).  The model   *)
(* carries both; the variable engine says which one runs.                  *)
(***************************************************************************)
EXTENDS Integers, Sequences, FiniteSets, TLC

(***************************************************************************)
(* Bounds of the model.                                                    *)
(***************************************************************************)
MaxPVCs == 2

MaxDryRuns == 2

\* Volumes the Docker daemon holds when LoadVolumes runs: at most this many.
MaxVolumes == 2

\* A wait loop's log keeps what its first status queries returned: this many.
MaxHistory == 3

\* Lines the operator types at the node prompt: at most this many.
MaxPrompts == 3

(***************************************************************************)
(* Go strings.                                                             *)
(***************************************************************************)
\* The characters the model uses, in byte order (Go compares strings bytewise).
Alphabet ==
  << " ", "-", ".", "0", "1", "2", "3", "4", "5", "6", "7", "8", "9", ":",
     "A", "B", "C", "D", "E", "F", "G", "H", "I", "J", "K", "L", "M",
     "N", "O", "P", "Q", "R", "S", "T", "U", "V", "W", "X", "Y", "Z", "_",
     "a", "b", "c", "d", "e", "f", "g", "h", "i", "j", "k", "l", "m",
     "n", "o", "p", "q", "r", "s", "t", "u", "v", "w", "x", "y", "z" >>

UpperChars ==
  << "A", "B", "C", "D", "E", "F", "G", "H", "I", "J", "K", "L", "M",
     "N", "O", "P", "Q", "R", "S", "T", "U", "V", "W", "X", "Y", "Z" >>

LowerChars ==
  << "a", "b", "c", "d", "e", "f", "g", "h", "i", "j", "k", "l", "m",
     "n", "o", "p", "q", "r", "s", "t", "u", "v", "w", "x", "y", "z" >>

Digits == << "0", "1", "2", "3", "4", "5", "6", "7", "8", "9" >>

IndexIn(seq, c) == CHOOSE i \in 1..Len(seq) : seq[i] = c

CharOrd(c) == IndexIn(Alphabet, c)

LowerChar(c) ==
  IF \E i \in 1..Len(UpperChars) : UpperChars[i] = c
  THEN LowerChars[IndexIn(UpperChars, c)]
  ELSE c

UpperChar(c) ==
  IF \E i \in 1..Len(LowerChars) : LowerChars[i] = c
  THEN UpperChars[IndexIn(LowerChars, c)]
  ELSE c

\* strings.ToUpper
ToUpper(s) == [i \in 1..Len(s) |-> UpperChar(s[i])]

\* strings.ToLower
ToLower(s) == [i \in 1..Len(s) |-> LowerChar(s[i])]

\* strings.EqualFold (ASCII)
EqualFold(a, b) == ToLower(a) = ToLower(b)

\* strings.Contains
Contains(s, sub) ==
  \E i \in 0..(Len(s) - Len(sub)) : SubSeq(s, i + 1, i + Len(sub)) = sub

\* a < b for Go strings
RECURSIVE StrLess(_, _)
StrLess(a, b) ==
  IF b = <<>> THEN FALSE
  ELSE IF a = <<>> THEN TRUE
  ELSE IF a[1] = b[1] THEN StrLess(Tail(a), Tail(b))
  ELSE CharOrd(a[1]) < CharOrd(b[1])

\* strings.Split(s, sep) for a one-character separator
RECURSIVE Split(_, _)
Split(s, sep) ==
  IF \E i \in 1..Len(s) : s[i] = sep
  THEN LET k == CHOOSE i \in 1..Len(s) :
                  s[i] = sep /\ \A j \in 1..(i - 1) : s[j] # sep
       IN  <<SubSeq(s, 1, k - 1)>> \o Split(SubSeq(s, k + 1, Len(s)), sep)
  ELSE <<s>>

\* strings.Join(parts, sep)
RECURSIVE Join(_, _)
Join(parts, sep) ==
  IF parts = <<>> THEN <<>>
  ELSE IF Len(parts) = 1 THEN parts[1]
  ELSE parts[1] \o <<sep>> \o Join(Tail(parts), sep)

\* strings.TrimSpace
RECURSIVE TrimLeft(_)
TrimLeft(s) == IF s # <<>> /\ s[1] = " " THEN TrimLeft(Tail(s)) ELSE s

RECURSIVE TrimRight(_)
TrimRight(s) ==
  IF s # <<>> /\ s[Len(s)] = " " THEN TrimRight(SubSeq(s, 1, Len(s) - 1)) ELSE s

TrimSpace(s) == TrimRight(TrimLeft(s))

IsDigit(c) == \E i \in 1..Len(Digits) : Digits[i] = c

RECURSIVE DigitsValue(_)
DigitsValue(s) ==
  IF s = <<>> THEN 0
  ELSE 10 * DigitsValue(SubSeq(s, 1, Len(s) - 1)) + (IndexIn(Digits, s[Len(s)]) - 1)

\* strconv.Atoi: an optional sign, then one or more decimal digits
Atoi(s) ==
  LET body == IF s # <<>> /\ s[1] \in {"-", "+"} THEN Tail(s) ELSE s
      neg  == s # <<>> /\ s[1] = "-"
  IN  IF body # <<>> /\ \A i \in 1..Len(body) : IsDigit(body[i])
      THEN [ok |-> TRUE,
            val |-> IF neg THEN 0 - DigitsValue(body) ELSE DigitsValue(body)]
      ELSE [ok |-> FALSE, val |-> 0]

\* strings.HasPrefix
HasPrefix(s, pre) == Len(pre) <= Len(s) /\ SubSeq(s, 1, Len(pre)) = pre

NonEmpty(s) == s # <<>>

\* strings.Fields: the pieces between runs of white space
Fields(s) == SelectSeq(Split(s, " "), NonEmpty)

\* fmt's %d of a non-negative int
RECURSIVE Itoa(_)
Itoa(n) == IF n < 10 THEN <<Digits[n + 1]>> ELSE Itoa(n \div 10) \o <<Digits[(n % 10) + 1]>>

RECURSIVE Pow10(_)
Pow10(k) == IF k = 0 THEN 1 ELSE 10 * Pow10(k - 1)


(***************************************************************************)
(* Data model (package types).                                             *)
(***************************************************************************)
\* A nil *DockerVolumeInfo; a non-nil pointer is <<v>>.
NilVolume == <<>>

\* types.DockerVolumeInfo
DockerVolumeInfo(name, mountpoint, size, human) ==
  [Name |-> name, Mountpoint |-> mountpoint, Size |-> size, SizeHuman |-> human]

\* types.PVCInfo
PVCInfo(name, namespace, requested) ==
  [Name |-> name, Namespace |-> namespace, RequestedSize |-> requested,
   MatchedVolume |-> NilVolume, NewSize |-> <<>>]

(***************************************************************************)
(* Inputs: the source volumes and the declarations the runs are drawn from.*)
(***************************************************************************)
VolumePool ==
  << DockerVolumeInfo(<<"a","p","p","_","d","a","t","a">>,
                      "/var/lib/docker/volumes/app_data/_data", 500, "500MB"),
     DockerVolumeInfo(<<"w","e","b","_","d","b">>,
                      "/var/lib/docker/volumes/web_db/_data", 0, "0 B"),
     DockerVolumeInfo(<<"A","p","p","-","c","a","c","h","e">>,
                      "/var/lib/docker/volumes/App-cache/_data", 67, "67.42MB") >>

ClaimNames ==
  << <<"s","v","c","-","a","p","p","-","d","a","t","a">>,
     <<"w","e","b","-","d","b">>,
     <<"l","o","g","s">>,
     <<"s","v","c","-","a","_","D","b">>,
     <<"x","-","d","b","-","a","_","v","2">> >>

\* metadata.namespace of the i-th declaration: absent, or given
DeclNamespaces == << <<>>, <<"prod">> >>

DeclSizes == << <<"1","G","i">>, <<"5","0","0","M","i">> >>

Cyc(seq, i) == seq[((i - 1) % Len(seq)) + 1]

\* A declaration document as the YAML decoders see it.
PVCDoc(i) ==
  [kind |-> "PersistentVolumeClaim", name |-> <<Cyc(ClaimNames, i)>>,
   namespace |-> Cyc(DeclNamespaces, i), storage |-> <<Cyc(DeclSizes, i)>>]

OtherDoc == [kind |-> "Service", name |-> <<>>, namespace |-> <<>>, storage |-> <<>>]

\* The i-th file of the declarations directory, in the order filepath.Walk
\* visits them: at the top level or in a subdirectory.
DeclFile(i, sub) ==
  [sub |-> sub, ext |-> IF i % 2 = 1 THEN "yaml" ELSE "yml",
   docs |-> IF i % 2 = 1 THEN <<PVCDoc(i)>> ELSE <<OtherDoc, PVCDoc(i)>>]

(***************************************************************************)
(* package kubernetes: the declaration parser.                             *)
(***************************************************************************)
\* parsePVCFromObject: nil (<<>>) unless name and storage are present.
parsePVCFromObject(doc) ==
  IF doc.name = <<>> \/ doc.storage = <<>> THEN <<>>
  ELSE << PVCInfo(doc.name[1],
                  IF doc.namespace = <<>> THEN "default" ELSE doc.namespace[1],
                  doc.storage[1]) >>

RECURSIVE parseDocs(_)
parseDocs(docs) ==
  IF docs = <<>> THEN <<>>
  ELSE (IF docs[1].kind = "PersistentVolumeClaim"
        THEN parsePVCFromObject(docs[1]) ELSE <<>>) \o parseDocs(Tail(docs))

parseYAMLFile(file) == parseDocs(file.docs)

RECURSIVE ParseYAMLFiles(_)
ParseYAMLFiles(fs) ==
  IF fs = <<>> THEN <<>>
  ELSE (IF fs[1].ext \in {"yaml", "yml"} THEN parseYAMLFile(fs[1]) ELSE <<>>)
       \o ParseYAMLFiles(Tail(fs))

(***************************************************************************)
(* Declaration files as text.  A file's content is the sequence of its     *)
(* lines, strings.Split(content, "\n"): a content that ends in a newline    *)
(* has an empty last line.  A line is a document marker, empty, a comment,  *)
(* or one field of the declaration.                                        *)
(***************************************************************************)
YLine(k, v) == [k |-> k, v |-> v]

\* The line "---".
SepLine == YLine("---", <<>>)

\* A document marker that is not the bytes "---" alone: "--- ", "---\r",
\* "--- # next".
SepSpaceLine == YLine("--- ", <<>>)

BlankLine == YLine("", <<>>)

CommentLine == YLine("#", <<>>)

\* A YAML parser starts a new document at either marker.
IsMarker(line) == line.k \in {"---", "--- "}

HasContent(seg) == \E i \in 1..Len(seg) : seg[i].k \notin {"", "#"}

\* The lines of a declaration document, as written by hand or a generator.
DocText(doc) ==
  <<CommentLine, YLine("kind", <<doc.kind>>)>>
  \o (IF doc.name = <<>> THEN <<>> ELSE <<YLine("name", doc.name[1])>>)
  \o (IF doc.namespace = <<>> THEN <<>> ELSE <<YLine("namespace", doc.namespace)>>)
  \o (IF doc.storage = <<>> THEN <<>> ELSE <<YLine("storage", doc.storage[1])>>)

ServiceDoc ==
  [kind |-> "Service", name |-> << <<"w","e","b">> >>, namespace |-> <<>>,
   storage |-> <<>>]

\* How a file is laid out around its claim: the claim alone, after or before
\* a Service, before an empty document and a Service, or after a leading
\* marker.  sep is the marker line the file uses between documents.
Layouts == {"pvc", "svc-pvc", "pvc-svc", "pvc-empty-svc", "marker-pvc-svc"}

LayoutLines(doc, layout, sep) ==
  CASE layout = "pvc" -> DocText(doc) \o <<BlankLine>>
    [] layout = "svc-pvc" ->
         DocText(ServiceDoc) \o <<sep>> \o DocText(doc) \o <<BlankLine>>
    [] layout = "pvc-svc" ->
         DocText(doc) \o <<sep>> \o DocText(ServiceDoc) \o <<BlankLine>>
    [] layout = "pvc-empty-svc" ->
         DocText(doc) \o <<sep, BlankLine, sep>> \o DocText(ServiceDoc) \o <<BlankLine>>
    [] OTHER ->
         <<sep>> \o DocText(doc) \o <<sep>> \o DocText(ServiceDoc) \o <<BlankLine>>

TextFile(i, sub, ext, layout, sep) ==
  [sub |-> sub, ext |-> ext, lines |-> LayoutLines(PVCDoc(i), layout, sep)]

\* The lines between document markers, in order.
RECURSIVE Segments(_, _)
Segments(lines, seg) ==
  IF lines = <<>> THEN <<seg>>
  ELSE IF IsMarker(lines[1]) THEN <<seg>> \o Segments(Tail(lines), <<>>)
  ELSE Segments(Tail(lines), Append(seg, lines[1]))

\* The documents of a YAML stream: what precedes the first marker is a
\* document only if it holds something.
YAMLDocs(lines) ==
  IF HasContent(Segments(lines, <<>>)[1]) THEN Segments(lines, <<>>)
  ELSE Tail(Segments(lines, <<>>))

Field(seg, k) ==
  IF \E i \in 1..Len(seg) : seg[i].k = k
  THEN <<seg[CHOOSE i \in 1..Len(seg) :
               seg[i].k = k /\ \A j \in 1..(i - 1) : seg[j].k # k].v>>
  ELSE <<>>

\* A document decoded into the map the Go code reads.
DecodeDoc(seg) ==
  [kind |-> IF Field(seg, "kind") = <<>> THEN "" ELSE Field(seg, "kind")[1][1],
   name |-> Field(seg, "name"),
   namespace |-> IF Field(seg, "namespace") = <<>> THEN <<>>
                 ELSE Field(seg, "namespace")[1],
   storage |-> Field(seg, "storage")]

\* yaml.NewYAMLToJSONDecoder: every document of the stream, one per Decode.
DecodeAll(lines) == [i \in 1..Len(YAMLDocs(lines)) |-> DecodeDoc(YAMLDocs(lines)[i])]

\* The file as parseYAMLFile's decoder presents it.
Decoded(file) == [sub |-> file.sub, ext |-> file.ext, docs |-> DecodeAll(file.lines)]

\* yaml.Unmarshal: the first document of the input; no document is a nil map.
Unmarshal(lines) ==
  IF YAMLDocs(lines) = <<>> THEN DecodeDoc(<<>>) ELSE DecodeDoc(YAMLDocs(lines)[1])

\* yaml.Marshal of the map: keys in sorted order, no comments, a final newline.
Marshal(obj) ==
  <<YLine("kind", <<obj.kind>>)>>
  \o (IF obj.name = <<>> THEN <<>> ELSE <<YLine("name", obj.name[1])>>)
  \o (IF obj.namespace = <<>> THEN <<>> ELSE <<YLine("namespace", obj.namespace)>>)
  \o (IF obj.storage = <<>> THEN <<>> ELSE <<YLine("storage", obj.storage[1])>>)
  \o <<BlankLine>>

(***************************************************************************)
(* package yaml: the declaration updater.                                  *)
(***************************************************************************)
\* strings.Split(content, "\n---\n"): a line "---" separates when a newline
\* not yet consumed precedes it and a newline follows it.
RECURSIVE SplitDocuments(_, _, _)
SplitDocuments(lines, start, i) ==
  IF i > Len(lines) THEN <<SubSeq(lines, start, Len(lines))>>
  ELSE IF lines[i] = SepLine /\ i > start /\ i < Len(lines)
  THEN <<SubSeq(lines, start, i - 1)>> \o SplitDocuments(lines, i + 1, i + 1)
  ELSE SplitDocuments(lines, start, i + 1)

\* strings.Join(documents, "\n---\n")
RECURSIVE JoinDocuments(_)
JoinDocuments(documents) ==
  IF documents = <<>> THEN <<>>
  ELSE IF Len(documents) = 1 THEN documents[1]
  ELSE documents[1] \o <<SepLine>> \o JoinDocuments(Tail(documents))

\* strings.TrimSpace(doc) == ""
IsBlank(document) == \A i \in 1..Len(document) : document[i] = BlankLine

\* updateDocumentIfPVC's search: the first claim with the name and namespace;
\* 0 when there is none.
MatchingPVC(ps, name, ns) ==
  IF \E i \in 1..Len(ps) : ps[i].Name = name /\ ps[i].Namespace = ns
  THEN CHOOSE i \in 1..Len(ps) :
         /\ ps[i].Name = name /\ ps[i].Namespace = ns
         /\ \A j \in 1..(i - 1) : ~(ps[j].Name = name /\ ps[j].Namespace = ns)
  ELSE 0

\* updateDocumentIfPVC
updateDocumentIfPVC(document, ps) ==
  LET obj == Unmarshal(document)
      ns  == IF obj.namespace = <<>> THEN "default" ELSE obj.namespace[1]
      m   == IF obj.name = <<>> THEN 0 ELSE MatchingPVC(ps, obj.name[1], ns)
  IN  IF \/ obj.kind # "PersistentVolumeClaim"
         \/ obj.name = <<>>
         \/ m = 0
         \/ obj.storage = <<>>
      THEN [doc |-> document, updated |-> FALSE]
      ELSE IF ps[m].NewSize = <<>>
      THEN [doc |-> document, updated |-> FALSE]
      ELSE [doc |-> Marshal([obj EXCEPT !.storage = <<ps[m].NewSize>>]),
            updated |-> TRUE]

RECURSIVE UpdatedDocuments(_, _)
UpdatedDocuments(documents, ps) ==
  IF documents = <<>> THEN <<>>
  ELSE IF IsBlank(documents[1]) THEN UpdatedDocuments(Tail(documents), ps)
  ELSE <<updateDocumentIfPVC(documents[1], ps)>>
       \o UpdatedDocuments(Tail(documents), ps)

\* updateYAMLFile: the content of the file afterwards.
updateYAMLFile(lines, ps) ==
  LET updates == UpdatedDocuments(SplitDocuments(lines, 1, 1), ps)
  IN  IF \E k \in 1..Len(updates) : updates[k].updated
      THEN JoinDocuments([k \in 1..Len(updates) |-> updates[k].doc])
      ELSE lines

(***************************************************************************)
(* package docker: the source-volume inventory.                            *)
(***************************************************************************)
\* A volume as the Docker daemon holds it: refs is the number of containers
\* that use it, walk the bytes a walk of its mountpoint adds up.
DaemonVolume(name, mountpoint, refs, walk) ==
  [Name |-> name, Mountpoint |-> mountpoint, refs |-> refs, walk |-> walk]

DaemonPool ==
  << DaemonVolume(<<"a","p","p","_","d","a","t","a">>,
                  "/var/lib/docker/volumes/app_data/_data", 0, 2048),
     DaemonVolume(<<"w","e","b","_","d","b">>,
                  "/var/lib/docker/volumes/web_db/_data", 2, 0),
     DaemonVolume(<<"A","p","p","-","c","a","c","h","e">>,
                  "/var/lib/docker/volumes/App-cache/_data", 1, 1280) >>

\* The exponent of an SI-decimal unit of parseSizeString; -1: no such unit.
UnitExp(unit) ==
  CASE unit = <<"B">> -> 0
    [] unit = <<"K","B">> -> 3
    [] unit = <<"M","B">> -> 6
    [] unit = <<"G","B">> -> 9
    [] unit = <<"T","B">> -> 12
    [] unit = <<"P","B">> -> 15
    [] unit = <<"E","B">> -> 18
    [] OTHER -> 0 - 1

AllDigits(s) == s # <<>> /\ \A i \in 1..Len(s) : IsDigit(s[i])

\* The length of the longest prefix of s made of digits and dots.
RECURSIVE NumberLen(_)
NumberLen(s) ==
  IF s # <<>> /\ (IsDigit(s[1]) \/ s[1] = ".") THEN 1 + NumberLen(Tail(s)) ELSE 0

\* parseSizeString: ^(\d+(?:\.\d+)?)\s*([KMGTPE]?B)$ on the upper-cased
\* string, then int64(value * multiplier).
parseSizeString(sizeStr) ==
  LET up     == ToUpper(sizeStr)
      number == SubSeq(up, 1, NumberLen(up))
      unit   == TrimLeft(SubSeq(up, NumberLen(up) + 1, Len(up)))
      pieces == Split(number, ".")
      whole  == pieces[1]
      frac   == IF Len(pieces) = 2 THEN pieces[2] ELSE <<>>
      wellFormed ==
        /\ Len(pieces) \in {1, 2}
        /\ AllDigits(whole)
        /\ Len(pieces) = 2 => AllDigits(frac)
        /\ UnitExp(unit) >= 0
      exp    == UnitExp(unit)
  IN  IF ~wellFormed THEN [ok |-> FALSE, bytes |-> 0]
      ELSE [ok |-> TRUE,
            bytes |-> IF Len(frac) <= exp
                      THEN DigitsValue(whole \o frac) * Pow10(exp - Len(frac))
                      ELSE DigitsValue(whole \o frac) \div Pow10(Len(frac) - exp)]

\* parseDockerDFOutput's loop body: the entry a line adds to the map, if any.
parseDFLine(raw) ==
  LET line   == TrimSpace(raw)
      fields == Fields(line)
  IN  IF \/ line = <<>>
         \/ HasPrefix(line, <<"V","O","L","U","M","E"," ","N","A","M","E">>)
         \/ Contains(line, <<"L","o","c","a","l"," ","V","o","l","u","m","e","s">>)
         \/ Len(fields) < 3
         \/ ~Atoi(fields[2]).ok
         \/ ~parseSizeString(fields[Len(fields)]).ok
      THEN <<>>
      ELSE << [name |-> fields[1],
               bytes |-> parseSizeString(fields[Len(fields)]).bytes,
               human |-> fields[Len(fields)],
               links |-> Atoi(fields[2]).val] >>

\* parseDockerDFOutput: the map as the sequence of its assignments; a later
\* assignment to a name replaces an earlier one.
RECURSIVE parseDockerDFOutput(_)
parseDockerDFOutput(lines) ==
  IF lines = <<>> THEN <<>>
  ELSE parseDFLine(lines[1]) \o parseDockerDFOutput(Tail(lines))

\* volumeSizes[name]: exists and the value.
Lookup(volumeSizes, name) ==
  LET hits == {k \in 1..Len(volumeSizes) : volumeSizes[k].name = name}
  IN  IF hits = {} THEN [exists |-> FALSE, bytes |-> 0, human |-> <<>>, links |-> 0]
      ELSE LET k == CHOOSE k \in hits : \A j \in hits : j <= k
           IN  [exists |-> TRUE, bytes |-> volumeSizes[k].bytes,
                human |-> volumeSizes[k].human, links |-> volumeSizes[k].links]

\* formatBytes: "%d B" below 1024, else "%.1f %cB" of bytes over the largest
\* power of 1024 not above it.
RECURSIVE UnitIndex(_)
UnitIndex(n) == IF n < 1024 THEN 0 ELSE 1 + UnitIndex(n \div 1024)

RECURSIVE Pow1024(_)
Pow1024(k) == IF k = 0 THEN 1 ELSE 1024 * Pow1024(k - 1)

formatBytes(bytes) ==
  IF bytes < 1024 THEN Itoa(bytes) \o <<" ", "B">>
  ELSE LET div    == Pow1024(UnitIndex(bytes))
           q      == (bytes * 10) \div div
           r      == (bytes * 10) % div
           tenths == IF 2 * r > div \/ (2 * r = div /\ q % 2 = 1) THEN q + 1 ELSE q
       IN  Itoa(tenths \div 10) \o <<".">> \o Itoa(tenths % 10) \o <<" ">>
           \o <<(<<"K","M","G","T","P","E">>)[UnitIndex(bytes)], "B">>

\* getVolumeSize: the walk's total and its rendering.
getVolumeSize(vol) == [size |-> vol.walk, human |-> formatBytes(vol.walk)]

\* LoadVolumes' loop body for one volume: skip (TRUE) or the entry it adds.
\* volumeSizes is <<>> (nil) when the size inventory failed, else <<map>>.
LoadVolume(volumeSizes, vol) ==
  LET df    == IF volumeSizes = <<>>
               THEN Lookup(<<>>, vol.Name) ELSE Lookup(volumeSizes[1], vol.Name)
      links == IF df.exists THEN df.links ELSE 0
      size  == IF df.exists THEN df.bytes ELSE 0
      human == IF df.exists THEN df.human ELSE <<>>
  IN  IF links > 0 THEN [skip |-> TRUE, info |-> <<>>]
      ELSE [skip |-> FALSE,
            info |-> IF size = 0
                     THEN DockerVolumeInfo(vol.Name, vol.Mountpoint,
                                           getVolumeSize(vol).size,
                                           getVolumeSize(vol).human)
                     ELSE DockerVolumeInfo(vol.Name, vol.Mountpoint, size, human)]

(***************************************************************************)
(* package ui: the sizing step.                                            *)
(***************************************************************************)
\* The suffixes of a quantity: binary SI, decimal SI (the empty one too).
QuantitySuffixes ==
  { <<>>, <<"K","i">>, <<"M","i">>, <<"G","i">>, <<"T","i">>, <<"P","i">>,
    <<"E","i">>, <<"n">>, <<"u">>, <<"m">>, <<"k">>, <<"M">>, <<"G">>, <<"T">>,
    <<"P">>, <<"E">> }

\* isValidSize: resource.ParseQuantity accepts the string: an optional sign,
\* digits with at most one dot and at least one digit, then a suffix or a
\* decimal exponent (e or E and a signed integer).
isValidSize(size) ==
  LET body   == IF size # <<>> /\ size[1] \in {"-", "+"} THEN Tail(size) ELSE size
      number == SubSeq(body, 1, NumberLen(body))
      suffix == SubSeq(body, NumberLen(body) + 1, Len(body))
  IN  /\ \E i \in 1..Len(number) : IsDigit(number[i])
      /\ Cardinality({i \in 1..Len(number) : number[i] = "."}) <= 1
      /\ \/ suffix \in QuantitySuffixes
         \/ /\ Len(suffix) >= 2
            /\ suffix[1] \in {"e", "E"}
            /\ Atoi(Tail(suffix)).ok

\* Faulty variant: whatever the operator typed is taken.
ResolveSizeUnchecked(pvc, line) ==
  IF TrimSpace(line) = <<>> THEN pvc.RequestedSize ELSE TrimSpace(line)

\* InteractiveSetSizes' loop body: the NewSize a line of input gives the claim.
ResolveSize(pvc, line) ==
  IF TrimSpace(line) = <<>> THEN pvc.RequestedSize
  ELSE IF isValidSize(TrimSpace(line)) THEN TrimSpace(line)
  ELSE pvc.RequestedSize

\* A line read from stdin at the size prompt (before TrimSpace).
\* PrintSummary: the block printed for each claim; the source line names the
\* volume or says "No matching volume found".
PrintSummary(ps) ==
  [i \in 1..Len(ps) |->
     [name |-> ps[i].Name, ns |-> ps[i].Namespace,
      requested |-> ps[i].RequestedSize, size |-> ps[i].NewSize,
      source |-> IF ps[i].MatchedVolume # NilVolume THEN "Source"
                 ELSE "No matching volume found",
      volume |-> ps[i].MatchedVolume]]

SizeInputs ==
  { <<>>, <<" ">>, <<"2","G","i">>, <<" ","5","0","0","M","i"," ">>,
    <<"1",".","5","G">>, <<"1","e","3">>, <<"5","G","B">>, <<"b","i","g">>,
    <<"1","0"," ","G","i">> }

(***************************************************************************)
(* State.                                                                  *)
(***************************************************************************)
VARIABLES
  engine,       \* "A": Engine of engine.go:18-458, "B": Engine of engine.go:473-740
  namespace,    \* Engine.migrationNamespace (A) / Engine.namespace (B)
  execute,      \* main's --execute flag
  files,        \* the declarations directory (Engine.yamlDirectory in A)
  pvcs,         \* the []*types.PVCInfo handed from step to step
  pc,           \* where the engine is
  idx,          \* StartMigration's loop index (1-based)
  elapsed,      \* seconds since the current wait's context was created
  polls,        \* status queries issued by the current wait
  lastPoll,     \* what the latest status query returned
  nodes,        \* getCurrentNodeName: the node list being offered
  defaultNode,  \* getCurrentNodeName: the default node
  cur,          \* copyData's locals for the item in hand
  trail,        \* per item: the lifecycle states it went through
  issued,       \* per item: the control-plane operations issued for it
  lastCall,     \* the latest control-plane call
  result,       \* StartMigration's return: "none", "ok", "error"
  err,          \* the returned error, outermost message first
  out,          \* the engine's item-level output lines
  dryOut,       \* the outputs of the DryRun calls so far
  dockerVolumes,\* VolumeMatcher.dockerVolumes: the inventory (a map keyed by name)
  mpc,          \* where MatchVolumes is
  mi,           \* MatchVolumes' loop index (1-based)
  offered,      \* the numbered list interactiveVolumeSelection printed
  picks,        \* per matched claim: the list offered and the line that settled it
  parts,        \* findVolumesContainingPVCName's pvcParts for the claim in hand
  cands,        \* MatchVolumes' candidates for the claim in hand
  stdin,        \* the volume prompt's input: at its end or not, the line last read
  ppc,          \* where main's preparation step in hand is
  pi,           \* the loop index of that step (1-based)
  daemon,       \* the volumes the Docker daemon lists, with their true use counts
  dfOutput,     \* `docker system df -v`: <<>> when it failed, else <<lines>>
  volumeSizes,  \* LoadVolumes' volumeSizes: <<>> (nil), else <<map>>
  sizeLines,    \* InteractiveSetSizes: the line read for each claim so far
  disk,         \* the declarations directory as text: per file, its lines
  disk0,        \* the declarations directory as UpdateYAMLFiles found it
  wkind,        \* a wait loop on its own: "pvc" (waitForPVCBound), "pod" (waitForPodCompletion)
  wpc,          \* where that loop is: "polling", or how it returned
  wpolls,       \* the status queries it issued
  welapsed,     \* seconds since its context was created
  wlast,        \* what its latest status query returned
  wphases,      \* what its first MaxHistory status queries returned, in order
  nodeLines,    \* the node prompt on its own: the lines read so far
  mainAt,       \* main: the index in MainPhases of the call it is about to make
  mainFailed,   \* main: the call whose error ended the process, "" when none did
  exit,         \* main: <<>> while the process runs, then <<exit code>>
  composeDir,   \* what the declarations directory holds of a compose file
  cpc,          \* where the matcher's compose context is: "load", "loaded"
  projectName,  \* compose.Parser.projectName
  volumeMappings,\* VolumeMatcher.volumeMappings: <<>> (nil), else the mappings
  composeRet,   \* what LoadComposeContext returned: <<>> before it did
  fuzzy,        \* the latest findFuzzyMatchForCompose call and what it returned
  worker        \* the worker pod of one item: its source, where it is, how it ran

engineVars ==
  << engine, namespace, execute, files, pvcs, pc, idx, elapsed, polls, lastPoll,
     nodes, defaultNode, cur, trail, issued, lastCall, result, err, out, dryOut >>

matchVars == << dockerVolumes, mpc, mi, offered, picks, parts, cands, stdin >>

loadVars == << daemon, dfOutput, volumeSizes >>

yamlVars == << disk, disk0 >>

prepVars == << ppc, pi, loadVars, sizeLines, yamlVars >>

waitVars == << wkind, wpc, wpolls, welapsed, wlast, wphases >>

\* The state of the parts that are also run on their own.
mainVars == << mainAt, mainFailed, exit >>

composeVars ==
  << composeDir, cpc, projectName, volumeMappings, composeRet, fuzzy >>

partVars == << waitVars, nodeLines, mainVars, composeVars, worker >>

vars == << engineVars, matchVars, prepVars, partVars >>

(***************************************************************************)
(* package migration: timing of the two wait loops.                        *)
(***************************************************************************)
PVCTimeout == 300

PodTimeout == 600

Interval == 5

\* How long one kubectl status query takes: at once, or longer than any ceiling.
CmdDurations == {0, PodTimeout}

Min(a, b) == IF a < b THEN a ELSE b

(***************************************************************************)
(* The control plane as the engine sees it.                                *)
(***************************************************************************)
\* What `kubectl get pvc -o jsonpath={.status.phase}` can return; "error" is a
\* failed query.
PVCPollResults == {"error", "Pending", "Bound", "Failed"}

\* What `kubectl get pod -o jsonpath={.status.phase}` can return.
PodPollResults == {"error", "Pending", "Running", "Succeeded", "Failed"}

NodeA == <<"k","8","s","-","a">>

NodeB == <<"k","8","s","-","b">>

\* strings.Fields of what `kubectl get nodes` prints.
NodeLists == { <<>>, <<NodeA>>, <<NodeA, NodeB>> }

\* os.Hostname(); the empty string when it fails.
Hostnames == { <<>>, <<"k","8","s","-","b">>, <<"l","a","p","t","o","p">> }

\* A line read from stdin at the node prompt (before TrimSpace).
NodeInputs ==
  { <<>>, <<"1">>, <<" ","2">>, <<"3">>, <<"0">>, <<"K","8","S","-","A">>,
    <<"b">>, <<"k","8","s">>, <<"z","z">> }

\* The --namespace flag as NewEngine receives it.
NamespaceFlags == {"", "staging"}

NoCall == [item |-> 0, op |-> "none", ns |-> "", n |-> 0, file |-> 0, pod |-> <<>>]

NoPoll == [kind |-> "none", phase |-> "none"]

\* copyData's locals and what the calls for the item in hand returned:
\* applies counts createPVC's runs for the item, apply is what it met
\* ("ok", "failed", or "nofile" when A finds no declaration file), bound
\* whether a status query reported Bound, logs and delete what showPodLogs
\* and deletePod returned.
NoCur ==
  [item |-> 0, applies |-> 0, apply |-> "none", bound |-> FALSE, node |-> <<>>,
   pod |-> <<>>, logs |-> "none", delete |-> "none"]

Call(i, op, ns) == [NoCall EXCEPT !.item = i, !.op = op, !.ns = ns]

\* NewEngine: an empty namespace becomes "default".
NewEngine(ns) == IF ns = "" THEN "default" ELSE ns

(***************************************************************************)
(* package migration: the pure parts.                                      *)
(***************************************************************************)
\* Faulty variant: the loop migrates every item, selected volume or not.
ShouldSkipNever(pvc) == FALSE

\* StartMigration's test for an item without a selected volume.
ShouldSkip(pvc) == pvc.MatchedVolume = NilVolume

\* fileContainsPVC: some document is a PersistentVolumeClaim of that name.
fileContainsPVC(file, pvc) ==
  \E k \in 1..Len(file.docs) :
    /\ file.docs[k].kind = "PersistentVolumeClaim"
    /\ file.docs[k].name = <<pvc.Name>>

\* filepath.Glob(dir/*.<ext>): the top-level files with that extension, from i on.
RECURSIVE Glob(_, _, _)
Glob(fs, ext, i) ==
  IF i > Len(fs) THEN <<>>
  ELSE (IF ~fs[i].sub /\ fs[i].ext = ext THEN <<i>> ELSE <<>>) \o Glob(fs, ext, i + 1)

\* findYAMLFileForPVC: the first globbed file holding the claim; 0 when none.
findYAMLFileForPVC(fs, pvc) ==
  LET yamlFiles == Glob(fs, "yaml", 1) \o Glob(fs, "yml", 1)
      hits == {k \in 1..Len(yamlFiles) : fileContainsPVC(fs[yamlFiles[k]], pvc)}
  IN  IF hits = {} THEN 0
      ELSE yamlFiles[CHOOSE k \in hits : \A m \in hits : k <= m]

\* The namespace the engine passes to kubectl for an item.
ItemNamespace(eng, ns, pvc) == IF eng = "A" THEN ns ELSE pvc.Namespace

\* Faulty variant: createPVC's error is dropped.
AfterCreatePVCIgnoreError(ok) == "waitForPVCBound"

\* migratePVC after createPVC returned.
AfterCreatePVC(ok) == IF ok THEN "waitForPVCBound" ELSE "fail"

\* Faulty variant: a claim reported Bound is polled on like a pending one.
WaitForPVCBoundStepNoBound(eng, res) ==
  IF eng = "A" /\ res = "Failed" THEN "failed" ELSE "sleep"

\* One status query of waitForPVCBound: what the loop does with its result.
WaitForPVCBoundStep(eng, res) ==
  IF res = "error" THEN "sleep"
  ELSE IF res = "Bound" THEN "bound"
  ELSE IF eng = "A" /\ res = "Failed" THEN "failed"
  ELSE "sleep"

\* migratePVC after waitForPVCBound returned nil: copyData's first step.
AfterBound(eng) == IF eng = "A" THEN "getNodes" ELSE "createPod"

\* Faulty variant: a Running pod is taken for a completed one.
WaitForPodCompletionStepRunningDone(res) ==
  IF res = "error" THEN "sleep"
  ELSE IF res \in {"Succeeded", "Running"} THEN "succeeded"
  ELSE IF res = "Failed" THEN "failed"
  ELSE "sleep"

\* Faulty variant: a Failed pod is polled on like a pending one.
WaitForPodCompletionStepNoFailed(res) ==
  IF res = "Succeeded" THEN "succeeded" ELSE "sleep"

\* One status query of waitForPodCompletion.
\* Faulty variant: a Failed pod is taken for a completed one.
WaitForPodCompletionStepFailedDone(res) ==
  IF res = "error" THEN "sleep"
  ELSE IF res \in {"Succeeded", "Failed"} THEN "succeeded"
  ELSE "sleep"

\* Faulty variant: a status query that fails ends the wait with an error.
WaitForPodCompletionStepQueryFatal(res) ==
  IF res = "error" THEN "failed"
  ELSE IF res = "Succeeded" THEN "succeeded"
  ELSE IF res = "Failed" THEN "failed"
  ELSE "sleep"

WaitForPodCompletionStep(res) ==
  IF res = "error" THEN "sleep"
  ELSE IF res = "Succeeded" THEN "succeeded"
  ELSE IF res = "Failed" THEN "failed"
  ELSE "sleep"

\* Faulty variant: a failed log fetch is returned as an error.
AfterShowPodLogsFatal(ok) == IF ok THEN "deletePod" ELSE "fail"

\* copyData after showPodLogs returned: a failure is only a warning.
AfterShowPodLogs(ok) == "deletePod"

\* copyData after deletePod returned: a failure is only a warning.
AfterDeletePod(ok) == "return nil"

\* Faulty variant: the loop goes on to the next item after an error.
AfterMigrateErrorContinue(i) == [pc |-> "loop", idx |-> i + 1, result |-> "none"]

\* Faulty variant: the loop tries the failed item again.
AfterMigrateErrorRetry(i) == [pc |-> "loop", idx |-> i, result |-> "none"]

\* StartMigration when migratePVC returned an error for item i.
AfterMigrateError(i) == [pc |-> "returned", idx |-> i, result |-> "error"]

\* The pod manifest copyData submits.
\* Faulty variant: the worker is always created in kube-system.
PodYAMLElsewhere(eng, ns, pvc, node) ==
  [name |-> <<"migration", pvc.Name>>,
   namespace |-> "kube-system",
   nodeName |-> IF eng = "A" THEN node ELSE <<>>,
   hostPath |-> pvc.MatchedVolume[1].Mountpoint,
   claimName |-> pvc.Name]

PodYAML(eng, ns, pvc, node) ==
  [name |-> <<"migration", pvc.Name>>,
   namespace |-> ItemNamespace(eng, ns, pvc),
   nodeName |-> IF eng = "A" THEN node ELSE <<>>,
   hostPath |-> pvc.MatchedVolume[1].Mountpoint,
   claimName |-> pvc.Name]

\* findBestDefaultNode
\* Faulty variant: with no node matching the host name, the host name itself
\* is the default.
findBestDefaultNodeOrHost(ns, hostname) ==
  LET hits == {k \in 1..Len(ns) :
                 \/ Contains(ToLower(ns[k]), ToLower(hostname))
                 \/ Contains(ToLower(hostname), ToLower(ns[k]))}
  IN  IF hits # {} THEN ns[CHOOSE k \in hits : \A m \in hits : k <= m]
      ELSE hostname

findBestDefaultNode(ns, hostname) ==
  LET hit(n) == \/ Contains(ToLower(n), ToLower(hostname))
                \/ Contains(ToLower(hostname), ToLower(n))
      hits == {k \in 1..Len(ns) : hit(ns[k])}
  IN  IF hits # {} THEN ns[CHOOSE k \in hits : \A m \in hits : k <= m]
      ELSE IF Len(ns) > 0 THEN ns[1]
      ELSE <<>>

\* Faulty variant: of several nodes that contain the input the first is taken.
NodeSelectFirstMatch(ns, def, line) ==
  LET input == TrimSpace(line)
      matches == {k \in 1..Len(ns) : Contains(ToLower(ns[k]), ToLower(input))}
  IN  IF input = <<>> THEN [done |-> TRUE, node |-> def]
      ELSE IF Atoi(input).ok
      THEN IF Atoi(input).val >= 1 /\ Atoi(input).val <= Len(ns)
           THEN [done |-> TRUE, node |-> ns[Atoi(input).val]]
           ELSE [done |-> FALSE, node |-> <<>>]
      ELSE IF matches # {}
      THEN [done |-> TRUE, node |-> ns[CHOOSE k \in matches : \A m \in matches : k <= m]]
      ELSE [done |-> FALSE, node |-> <<>>]

\* interactiveNodeSelection: what one line of input does.  done = FALSE is a
\* re-prompt.
NodeSelect(ns, def, line) ==
  LET input == TrimSpace(line)
      num == Atoi(input)
      exact == {k \in 1..Len(ns) : EqualFold(ns[k], input)}
      matches == {k \in 1..Len(ns) : Contains(ToLower(ns[k]), ToLower(input))}
      first(S) == CHOOSE k \in S : \A m \in S : k <= m
  IN  IF input = <<>> THEN [done |-> TRUE, node |-> def]
      ELSE IF num.ok
      THEN IF num.val >= 1 /\ num.val <= Len(ns)
           THEN [done |-> TRUE, node |-> ns[num.val]]
           ELSE [done |-> FALSE, node |-> <<>>]
      ELSE IF exact # {} THEN [done |-> TRUE, node |-> ns[first(exact)]]
      ELSE IF Cardinality(matches) = 1
      THEN [done |-> TRUE, node |-> ns[first(matches)]]
      ELSE [done |-> FALSE, node |-> <<>>]

\* Faulty variant: the dry run prints every item as one it would migrate.
DryRunItemUntagged(pvc, i) ==
  [lines |-> << [i |-> i, tag |-> "MIGRATE", name |-> pvc.Name, source |-> <<>>,
                 human |-> "", ns |-> "", size |-> <<>>, path |-> ""] >>,
   calls |-> {},
   pvc |-> pvc]

\* Faulty variant: the dry run clears the source of the claim it printed.
DryRunItemClears(pvc, i) ==
  [lines |-> << [i |-> i,
                 tag |-> IF pvc.MatchedVolume = NilVolume THEN "SKIP" ELSE "MIGRATE",
                 name |-> pvc.Name, source |-> <<>>, human |-> "", ns |-> "",
                 size |-> <<>>, path |-> ""] >>,
   calls |-> {},
   pvc |-> [pvc EXCEPT !.MatchedVolume = NilVolume]]

\* Faulty variant: the dry run applies the claim of every item it would migrate.
DryRunItemLive(pvc, i) ==
  [lines |-> << [i |-> i,
                 tag |-> IF pvc.MatchedVolume = NilVolume THEN "SKIP" ELSE "MIGRATE",
                 name |-> pvc.Name, source |-> <<>>, human |-> "", ns |-> "",
                 size |-> <<>>, path |-> ""] >>,
   calls |-> IF pvc.MatchedVolume = NilVolume THEN {} ELSE {"applyClaim"},
   pvc |-> pvc]

\* DryRun's loop body for item i: the lines it prints, the control-plane
\* operations it issues and the claim as it leaves it.
DryRunItem(pvc, i) ==
  [lines |->
     IF pvc.MatchedVolume = NilVolume
     THEN << [i |-> i, tag |-> "SKIP", name |-> pvc.Name, source |-> <<>>,
              human |-> "", ns |-> "", size |-> <<>>, path |-> ""] >>
     ELSE << [i |-> i, tag |-> "MIGRATE", name |-> pvc.Name,
              source |-> pvc.MatchedVolume[1].Name,
              human |-> pvc.MatchedVolume[1].SizeHuman,
              ns |-> pvc.Namespace, size |-> pvc.NewSize,
              path |-> pvc.MatchedVolume[1].Mountpoint] >>,
   calls |-> {},
   pvc |-> pvc]

RECURSIVE DryRunLines(_, _)
DryRunLines(ps, i) ==
  IF i > Len(ps) THEN <<>>
  ELSE DryRunItem(ps[i], i).lines \o DryRunLines(ps, i + 1)

(***************************************************************************)
(* package matcher: candidate discovery and the interactive selection.     *)
(***************************************************************************)
LongPart(part) == Len(part) > 1

\* Faulty variant: no leading segment is stripped.
extractPVCPartsNoStrip(pvcName) ==
  [i \in 1..Len(SelectSeq(Split(pvcName, "-"), LongPart)) |->
     ToLower(SelectSeq(Split(pvcName, "-"), LongPart)[i])]
  \o [i \in 1..Len(SelectSeq(Split(pvcName, "_"), LongPart)) |->
        ToLower(SelectSeq(Split(pvcName, "_"), LongPart)[i])]
  \o <<ToLower(pvcName)>>

\* Faulty variant: the cleaned full name is the only part.
extractPVCPartsWholeOnly(pvcName) ==
  IF Contains(pvcName, <<"-">>) /\ Len(Split(pvcName, "-")) > 1
  THEN <<ToLower(Join(Tail(Split(pvcName, "-")), "-"))>>
  ELSE <<ToLower(pvcName)>>

\* extractPVCParts
extractPVCParts(pvcName) ==
  LET cleanName ==
        IF Contains(pvcName, <<"-">>) /\ Len(Split(pvcName, "-")) > 1
        THEN Join(Tail(Split(pvcName, "-")), "-")
        ELSE pvcName
      byHyphen == SelectSeq(Split(cleanName, "-"), LongPart)
      byUnderscore == SelectSeq(Split(cleanName, "_"), LongPart)
  IN  [i \in 1..Len(byHyphen) |-> ToLower(byHyphen[i])]
      \o [i \in 1..Len(byUnderscore) |-> ToLower(byUnderscore[i])]
      \o <<ToLower(cleanName)>>

\* Faulty variant: the volume name is compared as it is written.
volumeContainsPVCPartsExactCase(volumeName, pvcParts) ==
  \E k \in 1..Len(pvcParts) : Contains(volumeName, pvcParts[k])

\* volumeContainsPVCParts
volumeContainsPVCParts(volumeName, pvcParts) ==
  \E k \in 1..Len(pvcParts) : Contains(ToLower(volumeName), pvcParts[k])

\* Faulty variant: the collected volumes are left in the order the map
\* yielded them, here the reverse of the names' order.
RECURSIVE InMapOrder(_)
InMapOrder(vols) ==
  IF vols = {} THEN <<>>
  ELSE LET most == CHOOSE v \in vols : \A w \in vols : ~StrLess(v.Name, w.Name)
       IN  <<most>> \o InMapOrder(vols \ {most})

\* sort.Slice by Name ascending; the names of a map's values are distinct.
RECURSIVE SortByName(_)
SortByName(vols) ==
  IF vols = {} THEN <<>>
  ELSE LET least == CHOOSE v \in vols : \A w \in vols : ~StrLess(w.Name, v.Name)
       IN  <<least>> \o SortByName(vols \ {least})

\* findVolumesContainingPVCName
findVolumesContainingPVCName(vols, pvc) ==
  SortByName({v \in vols : volumeContainsPVCParts(v.Name, extractPVCParts(pvc.Name))})

\* getAllDockerVolumes
getAllDockerVolumes(vols) == SortByName(vols)

\* Faulty variant: the candidates are offered even when there are none.
OfferedCandidatesOnly(vols, pvc) == findVolumesContainingPVCName(vols, pvc)

\* MatchVolumes' loop body: the list handed to interactiveVolumeSelection.
OfferedVolumes(vols, pvc) ==
  IF Len(findVolumesContainingPVCName(vols, pvc)) = 0
  THEN getAllDockerVolumes(vols)
  ELSE findVolumesContainingPVCName(vols, pvc)

\* Faulty variant: a single candidate is taken without asking.
VolumeSelectAuto(candidates, line) ==
  IF Len(candidates) = 1 THEN [done |-> TRUE, volume |-> <<candidates[1]>>]
  ELSE IF ~Atoi(TrimSpace(line)).ok THEN [done |-> FALSE, volume |-> NilVolume]
  ELSE IF Atoi(TrimSpace(line)).val = 0 THEN [done |-> TRUE, volume |-> NilVolume]
  ELSE IF Atoi(TrimSpace(line)).val >= 1 /\ Atoi(TrimSpace(line)).val <= Len(candidates)
  THEN [done |-> TRUE, volume |-> <<candidates[Atoi(TrimSpace(line)).val]>>]
  ELSE [done |-> FALSE, volume |-> NilVolume]

\* Faulty variant: the selection also overwrites the claim's final size.
SetMatchedVolumeAndSize(ps, i, volume) ==
  [ps EXCEPT ![i].MatchedVolume = volume,
             ![i].NewSize = IF volume = NilVolume THEN <<>> ELSE volume[1].Name]

\* MatchVolumes: pvc.MatchedVolume = the selection's result.
SetMatchedVolume(ps, i, volume) == [ps EXCEPT ![i].MatchedVolume = volume]

\* Faulty variant: a number past the end of the list is taken as "skip".
VolumeSelectLenient(candidates, line) ==
  IF ~Atoi(TrimSpace(line)).ok THEN [done |-> FALSE, volume |-> NilVolume]
  ELSE IF Atoi(TrimSpace(line)).val >= 1 /\ Atoi(TrimSpace(line)).val <= Len(candidates)
  THEN [done |-> TRUE, volume |-> <<candidates[Atoi(TrimSpace(line)).val]>>]
  ELSE [done |-> TRUE, volume |-> NilVolume]

\* interactiveVolumeSelection: what one line of input does.  done = FALSE is
\* another prompt.
VolumeSelect(candidates, line) ==
  LET choice == Atoi(TrimSpace(line))
  IN  IF ~choice.ok THEN [done |-> FALSE, volume |-> NilVolume]
      ELSE IF choice.val = 0 THEN [done |-> TRUE, volume |-> NilVolume]
      ELSE IF choice.val >= 1 /\ choice.val <= Len(candidates)
      THEN [done |-> TRUE, volume |-> <<candidates[choice.val]>>]
      ELSE [done |-> FALSE, volume |-> NilVolume]

\* A line read from stdin at the volume prompt (before TrimSpace).
VolumeInputs ==
  { <<"0">>, <<"1">>, <<" ","2"," ">>, <<"3">>, <<"4">>, <<"-","1">>,
    <<"+","1">>, <<"x">>, <<>> }

\* MatchVolumes: the loop reaches claim mi; its list is computed and printed.
MatchOffer ==
  /\ mpc = "match"
  /\ UNCHANGED partVars
  /\ mi <= Len(pvcs)
  /\ parts' = extractPVCParts(pvcs[mi].Name)
  /\ cands' = findVolumesContainingPVCName(dockerVolumes, pvcs[mi])
  /\ offered' = OfferedVolumes(dockerVolumes, pvcs[mi])
  /\ stdin' = [stdin EXCEPT !.last = <<>>]
  /\ mpc' = "read"
  /\ UNCHANGED << engineVars, prepVars, dockerVolumes, mi, picks >>

\* interactiveVolumeSelection: one line is read from stdin.
MatchRead ==
  /\ mpc = "read"
  /\ ~stdin.eof
  /\ UNCHANGED partVars
  /\ \E line \in VolumeInputs :
       LET r == VolumeSelect(offered, line)
       IN  /\ stdin' = [stdin EXCEPT !.last = <<line>>]
           /\ IF r.done
              THEN /\ pvcs' = SetMatchedVolume(pvcs, mi, r.volume)
                   /\ picks' = Append(picks, [offered |-> offered, line |-> line])
                   /\ mi' = mi + 1
                   /\ offered' = <<>>
                   /\ mpc' = "match"
              ELSE UNCHANGED << pvcs, picks, mi, offered, mpc >>
  /\ UNCHANGED << engine, namespace, execute, files, pc, idx, elapsed, polls,
                  lastPoll, nodes, defaultNode, cur, trail, issued, lastCall,
                  result, err, out, dryOut, dockerVolumes, parts, cands >>
  /\ UNCHANGED prepVars

\* interactiveVolumeSelection: reading stdin fails, for once or because the
\* input is at its end (every later read fails too); the loop prompts again.
MatchReadError ==
  /\ mpc = "read"
  /\ UNCHANGED partVars
  /\ \E eof \in BOOLEAN : stdin' = [stdin EXCEPT !.eof = stdin.eof \/ eof]
  /\ UNCHANGED << engineVars, prepVars, dockerVolumes, mpc, mi, offered, picks,
                  parts, cands >>

\* MatchVolumes: the loop is over; the list is returned.
MatchReturn ==
  /\ mpc = "match"
  /\ UNCHANGED partVars
  /\ mi > Len(pvcs)
  /\ mpc' = "done"
  /\ UNCHANGED << engineVars, prepVars, dockerVolumes, mi, offered, picks, parts,
                  cands, stdin >>

(***************************************************************************)
(* The engine: initial states.  The claim list is what main hands over:    *)
(* the parsed declarations, each with or without a selected volume, and    *)
(* NewSize set by the sizing step.                                         *)
(***************************************************************************)
InitEngine ==
  /\ engine \in {"A", "B"}
  /\ \E flag \in NamespaceFlags :
       \* B never reads Engine.namespace: one value stands for all
       /\ engine = "B" => flag = ""
       /\ namespace = NewEngine(flag)
  /\ execute \in BOOLEAN
  /\ \E n \in 0..MaxPVCs :
       \E subs \in [1..n -> BOOLEAN], sel \in [1..n -> BOOLEAN] :
         \* B never reads the declarations directory: one layout stands for all
         /\ engine = "B" => \A i \in 1..n : ~subs[i]
         /\ files = [i \in 1..n |-> DeclFile(i, subs[i])]
         /\ pvcs = [i \in 1..n |->
                      [ParseYAMLFiles(files)[i] EXCEPT
                         !.MatchedVolume =
                            IF sel[i] THEN <<Cyc(VolumePool, i)>> ELSE NilVolume,
                         !.NewSize = ParseYAMLFiles(files)[i].RequestedSize]]
         /\ trail = [i \in 1..n |-> <<"Pending">>]
         /\ issued = [i \in 1..n |-> {}]
  /\ pc = "idle"
  /\ idx = 0
  /\ elapsed = 0
  /\ polls = 0
  /\ lastPoll = NoPoll
  /\ nodes = <<>>
  /\ defaultNode = <<>>
  /\ cur = NoCur
  /\ lastCall = NoCall
  /\ result = "none"
  /\ err = <<>>
  /\ out = <<>>
  /\ dryOut = <<>>

(***************************************************************************)
(* The engine: steps.                                                      *)
(***************************************************************************)
Line(text, i) == [line |-> text, item |-> i]

\* A control-plane call for the item in hand.
Issue(call) ==
  /\ lastCall' = call
  /\ issued' = [issued EXCEPT ![idx] = @ \cup {call.op}]

NoIssue == UNCHANGED << lastCall, issued >>

\* migratePVC returned an error: StartMigration prints it and returns.
Fail(chain, printed) ==
  LET after == AfterMigrateError(idx)
  IN  /\ pc' = after.pc
      /\ idx' = after.idx
      /\ result' = after.result
      /\ err' = IF after.result = "error"
                THEN <<"migration failed for PVC">> \o chain ELSE err
      /\ trail' = [trail EXCEPT ![idx] = Append(@, "Failed")]
      /\ out' = out \o printed \o <<Line("Failed to migrate", idx)>>

\* StartMigration is called (execute mode).
StartMigration ==
  /\ pc = "idle"
  /\ UNCHANGED partVars
  /\ UNCHANGED << matchVars, prepVars >>
  /\ execute
  /\ pc' = "loop"
  /\ idx' = 1
  /\ out' = Append(out, Line("Starting Migration Process", 0))
  /\ UNCHANGED << engine, namespace, execute, files, pvcs, elapsed, polls,
                  lastPoll, nodes, defaultNode, cur, trail, issued, lastCall,
                  result, err, dryOut >>

\* The loop body for an item without a selected volume.
SkipItem ==
  /\ pc = "loop"
  /\ UNCHANGED partVars
  /\ UNCHANGED << matchVars, prepVars >>
  /\ idx <= Len(pvcs)
  /\ ShouldSkip(pvcs[idx])
  /\ out' = Append(out, Line("Skipping", idx))
  /\ idx' = idx + 1
  /\ UNCHANGED << engine, namespace, execute, files, pvcs, pc, elapsed, polls,
                  lastPoll, nodes, defaultNode, cur, trail, issued, lastCall,
                  result, err, dryOut >>

\* The loop is over: StartMigration returns nil.
FinishMigration ==
  /\ pc = "loop"
  /\ UNCHANGED partVars
  /\ UNCHANGED << matchVars, prepVars >>
  /\ idx > Len(pvcs)
  /\ pc' = "returned"
  /\ result' = "ok"
  /\ out' = Append(out, Line("Migration completed successfully", 0))
  /\ UNCHANGED << engine, namespace, execute, files, pvcs, idx, elapsed, polls,
                  lastPoll, nodes, defaultNode, cur, trail, issued, lastCall,
                  err, dryOut >>

\* migratePVC, step 1: createPVC.  A looks the declaration file up and applies
\* it with -n; B applies a manifest it generates from the claim.
CreatePVC ==
  /\ pc = "loop"
  /\ UNCHANGED partVars
  /\ UNCHANGED << matchVars, prepVars >>
  /\ idx <= Len(pvcs)
  /\ ~ShouldSkip(pvcs[idx])
  /\ LET pvc == pvcs[idx]
         printed == <<Line("Migrating PVC", idx)>>
         file == IF engine = "A" THEN findYAMLFileForPVC(files, pvc) ELSE 0
         applyErr == IF engine = "A" THEN "failed to apply YAML file"
                                     ELSE "failed to create PVC"
         started == [NoCur EXCEPT
                       !.item = idx,
                       !.applies = (IF cur.item = idx THEN cur.applies ELSE 0) + 1]
     IN  /\ polls' = 0
         /\ elapsed' = 0
         /\ lastPoll' = NoPoll
         /\ IF engine = "A" /\ file = 0
            THEN /\ NoIssue
                 /\ cur' = [started EXCEPT !.apply = "nofile"]
                 /\ Fail(<<applyErr, "failed to find YAML file for PVC",
                           "no YAML file found containing PVC">>, printed)
            ELSE \E ok \in BOOLEAN :
                   /\ cur' = [started EXCEPT !.apply = IF ok THEN "ok" ELSE "failed"]
                   /\ Issue([Call(idx, "applyClaim", ItemNamespace(engine, namespace, pvc))
                               EXCEPT !.file = file])
                   /\ IF AfterCreatePVC(ok) = "waitForPVCBound"
                      THEN /\ pc' = "waitForPVCBound"
                           /\ trail' = [trail EXCEPT ![idx] = Append(@, "Applied")]
                           /\ out' = out \o printed
                           /\ UNCHANGED << idx, result, err >>
                      ELSE Fail(<<applyErr, "kubectl apply failed">>, printed)
  /\ UNCHANGED << engine, namespace, execute, files, pvcs, nodes, defaultNode, dryOut >>

\* waitForPVCBound: the deadline has passed when the loop comes round.
TimeoutPVC ==
  /\ pc = "waitForPVCBound"
  /\ UNCHANGED partVars
  /\ UNCHANGED << matchVars, prepVars >>
  /\ elapsed >= PVCTimeout
  /\ NoIssue
  /\ Fail(<<"PVC not bound", "timeout waiting for PVC">>, <<>>)
  /\ UNCHANGED << engine, namespace, execute, files, pvcs, elapsed, polls,
                  lastPoll, nodes, defaultNode, cur, dryOut >>

\* waitForPVCBound: one turn of the loop before the deadline: the status
\* query, and the sleep when the wait goes on.
PollPVC ==
  /\ pc = "waitForPVCBound"
  /\ UNCHANGED partVars
  /\ UNCHANGED << matchVars, prepVars >>
  /\ elapsed < PVCTimeout
  /\ \E res \in PVCPollResults, d \in CmdDurations :
       LET step == WaitForPVCBoundStep(engine, res)
       IN  /\ polls' = polls + 1
           /\ lastPoll' = [kind |-> "pvc", phase |-> res]
           /\ Issue([Call(idx, "getClaim", ItemNamespace(engine, namespace, pvcs[idx]))
                       EXCEPT !.n = polls + 1])
           /\ cur' = [cur EXCEPT !.bound = (res = "Bound")]
           /\ CASE step = "bound" ->
                     /\ pc' = AfterBound(engine)
                     /\ trail' = [trail EXCEPT ![idx] = Append(@, "Bound")]
                     /\ elapsed' = 0
                     /\ UNCHANGED << idx, result, err, out >>
                [] step = "failed" ->
                     /\ elapsed' = 0
                     /\ Fail(<<"PVC not bound", "PVC failed to bind">>, <<>>)
                [] OTHER ->
                     /\ elapsed' = Min(elapsed + d + Interval, PVCTimeout)
                     /\ UNCHANGED << pc, idx, result, err, out, trail >>
  /\ UNCHANGED << engine, namespace, execute, files, pvcs, nodes, defaultNode,
                  dryOut >>

\* copyData in A, getCurrentNodeName: list the nodes and pick the default.
GetNodes ==
  /\ pc = "getNodes"
  /\ UNCHANGED partVars
  /\ UNCHANGED << matchVars, prepVars >>
  /\ Issue(Call(idx, "getNodes", ""))
  /\ \E ok \in BOOLEAN, list \in NodeLists, hostname \in Hostnames :
       IF ~ok
       THEN /\ Fail(<<"failed to copy data", "failed to get current node name",
                      "failed to get node list">>, <<>>)
            /\ UNCHANGED << nodes, defaultNode >>
       ELSE IF Len(list) = 0
       THEN /\ Fail(<<"failed to copy data", "failed to get current node name",
                      "no Kubernetes nodes found">>, <<>>)
            /\ UNCHANGED << nodes, defaultNode >>
       ELSE /\ nodes' = list
            /\ defaultNode' = findBestDefaultNode(list, hostname)
            /\ pc' = "selectNode"
            /\ UNCHANGED << idx, result, err, out, trail >>
  /\ UNCHANGED << engine, namespace, execute, files, pvcs, elapsed, polls,
                  lastPoll, cur, dryOut >>

\* interactiveNodeSelection: one line is read from stdin.
SelectNode ==
  /\ pc = "selectNode"
  /\ UNCHANGED partVars
  /\ UNCHANGED << matchVars, prepVars >>
  /\ \E line \in NodeInputs :
       LET r == NodeSelect(nodes, defaultNode, line)
       IN  IF r.done
           THEN /\ cur' = [cur EXCEPT !.node = r.node]
                /\ pc' = "createPod"
                /\ nodes' = <<>>
                /\ defaultNode' = <<>>
           ELSE UNCHANGED << cur, pc, nodes, defaultNode >>
  /\ NoIssue
  /\ UNCHANGED << engine, namespace, execute, files, pvcs, idx, elapsed, polls,
                  lastPoll, trail, result, err, out, dryOut >>

\* interactiveNodeSelection: reading stdin fails (end of input).
SelectNodeReadError ==
  /\ pc = "selectNode"
  /\ UNCHANGED partVars
  /\ UNCHANGED << matchVars, prepVars >>
  /\ NoIssue
  /\ nodes' = <<>>
  /\ defaultNode' = <<>>
  /\ Fail(<<"failed to copy data", "failed to get current node name",
            "failed to read input">>, <<>>)
  /\ UNCHANGED << engine, namespace, execute, files, pvcs, elapsed, polls,
                  lastPoll, cur, dryOut >>

\* copyData: the migration pod is submitted.
CreatePod ==
  /\ pc = "createPod"
  /\ UNCHANGED partVars
  /\ UNCHANGED << matchVars, prepVars >>
  /\ LET pod == PodYAML(engine, namespace, pvcs[idx], cur.node)
     IN  /\ Issue([Call(idx, "applyPod", pod.namespace) EXCEPT !.pod = <<pod>>])
         /\ \E ok \in BOOLEAN :
              IF ok
              THEN /\ cur' = [cur EXCEPT !.pod = <<pod>>]
                   /\ pc' = "waitForPodCompletion"
                   /\ UNCHANGED << idx, result, err, out, trail >>
              ELSE /\ Fail(<<"failed to copy data", "failed to create migration pod">>,
                           <<>>)
                   /\ UNCHANGED cur
  /\ polls' = 0
  /\ elapsed' = 0
  /\ lastPoll' = NoPoll
  /\ UNCHANGED << engine, namespace, execute, files, pvcs, nodes, defaultNode, dryOut >>

\* waitForPodCompletion: the deadline has passed when the loop comes round.
TimeoutPod ==
  /\ pc = "waitForPodCompletion"
  /\ UNCHANGED partVars
  /\ UNCHANGED << matchVars, prepVars >>
  /\ elapsed >= PodTimeout
  /\ NoIssue
  /\ Fail(<<"failed to copy data", "migration pod failed",
            "timeout waiting for pod">>, <<>>)
  /\ UNCHANGED << engine, namespace, execute, files, pvcs, elapsed, polls,
                  lastPoll, nodes, defaultNode, cur, dryOut >>

\* waitForPodCompletion: one turn of the loop before the deadline.
PollPod ==
  /\ pc = "waitForPodCompletion"
  /\ UNCHANGED partVars
  /\ UNCHANGED << matchVars, prepVars >>
  /\ elapsed < PodTimeout
  /\ \E res \in PodPollResults, d \in CmdDurations :
       LET step == WaitForPodCompletionStep(res)
       IN  /\ polls' = polls + 1
           /\ lastPoll' = [kind |-> "pod", phase |-> res]
           /\ Issue([Call(idx, "getPod", cur.pod[1].namespace) EXCEPT !.n = polls + 1])
           /\ CASE step = "succeeded" ->
                     /\ pc' = "showPodLogs"
                     /\ trail' = [trail EXCEPT ![idx] = Append(@, "DataCopied")]
                     /\ elapsed' = 0
                     /\ UNCHANGED << idx, result, err, out >>
                [] step = "failed" ->
                     /\ elapsed' = 0
                     /\ Fail(<<"failed to copy data", "migration pod failed",
                               "migration pod failed">>, <<>>)
                [] OTHER ->
                     /\ elapsed' = Min(elapsed + d + Interval, PodTimeout)
                     /\ UNCHANGED << pc, idx, result, err, out, trail >>
  /\ UNCHANGED << engine, namespace, execute, files, pvcs, nodes, defaultNode,
                  cur, dryOut >>

\* copyData: showPodLogs.
ShowPodLogs ==
  /\ pc = "showPodLogs"
  /\ UNCHANGED partVars
  /\ UNCHANGED << matchVars, prepVars >>
  /\ Issue(Call(idx, "logs", cur.pod[1].namespace))
  /\ \E ok \in BOOLEAN :
       /\ cur' = [cur EXCEPT !.logs = IF ok THEN "ok" ELSE "failed"]
       /\ IF AfterShowPodLogs(ok) = "deletePod"
          THEN /\ pc' = "deletePod"
               /\ UNCHANGED << idx, result, err, out, trail >>
          ELSE Fail(<<"failed to copy data", "could not retrieve pod logs">>, <<>>)
  /\ UNCHANGED << engine, namespace, execute, files, pvcs, elapsed, polls,
                  lastPoll, nodes, defaultNode, dryOut >>

\* copyData: deletePod; copyData and migratePVC return nil and StartMigration
\* goes on to the next item.
DeletePod ==
  /\ pc = "deletePod"
  /\ UNCHANGED partVars
  /\ UNCHANGED << matchVars, prepVars >>
  /\ Issue(Call(idx, "deletePod", cur.pod[1].namespace))
  /\ \E ok \in BOOLEAN :
       /\ cur' = [cur EXCEPT !.delete = IF ok THEN "ok" ELSE "failed"]
       /\ IF AfterDeletePod(ok) = "return nil"
          THEN /\ pc' = "loop"
               /\ idx' = idx + 1
               /\ trail' = [trail EXCEPT ![idx] = Append(@, "Done")]
               /\ out' = Append(out, Line("Successfully migrated", idx))
               /\ UNCHANGED << result, err >>
          ELSE Fail(<<"failed to copy data", "could not delete migration pod">>, <<>>)
  /\ UNCHANGED << engine, namespace, execute, files, pvcs, elapsed, polls,
                  lastPoll, nodes, defaultNode, dryOut >>

\* DryRun is called (the default mode).
DryRun ==
  /\ pc = "idle"
  /\ UNCHANGED partVars
  /\ UNCHANGED << matchVars, prepVars >>
  /\ ~execute
  /\ Len(dryOut) < MaxDryRuns
  /\ dryOut' = Append(dryOut, DryRunLines(pvcs, 1))
  /\ pvcs' = [i \in 1..Len(pvcs) |-> DryRunItem(pvcs[i], i).pvc]
  /\ issued' = [i \in 1..Len(pvcs) |-> issued[i] \cup DryRunItem(pvcs[i], i).calls]
  /\ UNCHANGED << engine, namespace, execute, files, pc, idx, elapsed, polls,
                  lastPoll, nodes, defaultNode, cur, trail, lastCall, result,
                  err, out >>

NextEngine ==
  \/ StartMigration
  \/ SkipItem
  \/ FinishMigration
  \/ CreatePVC
  \/ TimeoutPVC
  \/ PollPVC
  \/ GetNodes
  \/ SelectNode
  \/ SelectNodeReadError
  \/ CreatePod
  \/ TimeoutPod
  \/ PollPod
  \/ ShowPodLogs
  \/ DeletePod
  \/ DryRun

\* Standard input before the volume prompt read from it.
NoStdin == [eof |-> FALSE, last |-> <<>>]

\* The matcher is not running.
MatcherOff ==
  /\ dockerVolumes = {}
  /\ mpc = "off"
  /\ mi = 0
  /\ offered = <<>>
  /\ picks = <<>>
  /\ parts = <<>>
  /\ cands = <<>>
  /\ stdin = NoStdin

\* The engine has not been constructed.
EngineOff ==
  /\ engine = "B"
  /\ namespace = "default"
  /\ execute = FALSE
  /\ pc = "off"
  /\ idx = 0
  /\ elapsed = 0
  /\ polls = 0
  /\ lastPoll = NoPoll
  /\ nodes = <<>>
  /\ defaultNode = <<>>
  /\ cur = NoCur
  /\ lastCall = NoCall
  /\ result = "none"
  /\ err = <<>>
  /\ out = <<>>
  /\ dryOut = <<>>

\* No wait loop is running on its own.
WaitOff ==
  /\ wkind = "none"
  /\ wpc = "off"
  /\ wpolls = 0
  /\ welapsed = 0
  /\ wlast = "none"
  /\ wphases = <<>>

\* main is not modelled.
MainOff ==
  /\ mainAt = 0
  /\ mainFailed = ""
  /\ exit = <<>>

\* The matcher's compose context is not modelled.
NoDir == [base |-> <<>>, names |-> {}, readable |-> FALSE, wellFormed |-> FALSE,
          services |-> <<>>]

NoFuzzy == [volumeName |-> <<>>, order |-> <<>>, match |-> <<>>]

\* No worker pod is modelled.
NoWorker == [source |-> "none", cpOk |-> FALSE, at |-> "off", ran |-> <<>>,
             exit |-> <<>>]

ComposeOff ==
  /\ composeDir = NoDir
  /\ cpc = "off"
  /\ projectName = <<>>
  /\ volumeMappings = <<>>
  /\ composeRet = <<>>
  /\ fuzzy = NoFuzzy

\* No part is running on its own.
PartsOff ==
  /\ WaitOff
  /\ nodeLines = <<>>
  /\ MainOff
  /\ ComposeOff
  /\ worker = NoWorker

\* No preparation step is running.
PrepOff ==
  /\ ppc = "off"
  /\ pi = 0
  /\ daemon = <<>>
  /\ dfOutput = <<>>
  /\ volumeSizes = <<>>
  /\ sizeLines = <<>>
  /\ disk = <<>>
  /\ disk0 = <<>>

(***************************************************************************)
(* The migration engine, from the claim list main hands it.                *)
(***************************************************************************)
Init == InitEngine /\ MatcherOff /\ PrepOff /\ PartsOff

Next == NextEngine

Spec == Init /\ [][Next]_vars

(***************************************************************************)
(* The matcher, from the inventory and the parsed declarations.            *)
(***************************************************************************)
InitMatch ==
  /\ PartsOff
  /\ EngineOff
  /\ PrepOff
  /\ dockerVolumes \in SUBSET {VolumePool[k] : k \in 1..Len(VolumePool)}
  /\ \E n \in 0..MaxPVCs :
       \E pick \in [1..n -> 1..Len(ClaimNames)], subs \in [1..n -> {FALSE}] :
         /\ files = [i \in 1..n |-> DeclFile(pick[i], subs[i])]
         /\ pvcs = ParseYAMLFiles(files)
         /\ trail = [i \in 1..n |-> <<"Pending">>]
         /\ issued = [i \in 1..n |-> {}]
  /\ mpc = "match"
  /\ mi = 1
  /\ offered = <<>>
  /\ picks = <<>>
  /\ parts = <<>>
  /\ cands = <<>>
  /\ stdin = NoStdin

NextMatch ==
  \/ MatchOffer
  \/ MatchRead
  \/ MatchReadError
  \/ MatchReturn

SpecMatch == InitMatch /\ [][NextMatch]_vars


(***************************************************************************)
(* LoadVolumes, from what the Docker daemon holds.                         *)
(***************************************************************************)
\* How `docker system df -v` shows a volume: its line with the size of a
\* volume that holds data, with size 0B, with a size field that is no size,
\* cut short after the links column, or not at all.
DFForms == {"sized", "empty", "nosize", "short", "absent"}

DFLine(vol, form) ==
  CASE form = "sized" ->
         << vol.Name \o <<" ", " ", " ">> \o Itoa(vol.refs) \o <<" ", " ">>
            \o <<"6","7",".","4","2","M","B">> >>
    [] form = "empty" ->
         << vol.Name \o <<" ">> \o Itoa(vol.refs) \o <<" ", "0", "B">> >>
    [] form = "nosize" ->
         << vol.Name \o <<" ">> \o Itoa(vol.refs) \o <<" ", "N", "-", "A">> >>
    [] form = "short" ->
         << vol.Name \o <<" ">> \o Itoa(vol.refs) >>
    [] OTHER -> <<>>

RECURSIVE DFLines(_, _, _)
DFLines(vols, forms, i) ==
  IF i > Len(vols) THEN <<>>
  ELSE DFLine(vols[i], forms[i]) \o DFLines(vols, forms, i + 1)

\* The volumes section of the command's output.
DFOutput(vols, forms) ==
  << <<"L","o","c","a","l"," ","V","o","l","u","m","e","s"," ",
       "s","p","a","c","e"," ","u","s","a","g","e",":">>,
     <<>>,
     <<"V","O","L","U","M","E"," ","N","A","M","E"," "," ",
       "L","I","N","K","S"," "," ","S","I","Z","E">> >>
  \o DFLines(vols, forms, 1) \o << <<>> >>

LoaderIdle ==
  /\ PartsOff
  /\ EngineOff
  /\ MatcherOff
  /\ files = <<>>
  /\ pvcs = <<>>
  /\ trail = <<>>
  /\ issued = <<>>

InitLoad ==
  /\ LoaderIdle
  /\ \E n \in 0..MaxVolumes :
       \E refs \in [1..n -> {0, 2}] :
         daemon = [i \in 1..n |->
                     DaemonVolume(Cyc(DaemonPool, i).Name, Cyc(DaemonPool, i).Mountpoint,
                                  refs[i], Cyc(DaemonPool, i).walk)]
  /\ ppc = "list"
  /\ pi = 0
  /\ dfOutput = <<>>
  /\ volumeSizes = <<>>
  /\ sizeLines = <<>>
  /\ disk = <<>>
  /\ disk0 = <<>>

\* c.client.VolumeList succeeds.
ListVolumes ==
  /\ ppc = "list"
  /\ UNCHANGED partVars
  /\ ppc' = "df"
  /\ UNCHANGED << engineVars, matchVars, pi, loadVars, sizeLines, yamlVars >>

\* c.client.VolumeList fails: LoadVolumes returns the error.
ListVolumesError ==
  /\ ppc = "list"
  /\ UNCHANGED partVars
  /\ ppc' = "failed"
  /\ UNCHANGED << engineVars, matchVars, pi, loadVars, sizeLines, yamlVars >>

\* getVolumeSizesFromDockerDF: the command fails (nil map, a warning), or its
\* output is parsed.
GetVolumeSizes ==
  /\ ppc = "df"
  /\ UNCHANGED partVars
  /\ \/ /\ dfOutput' = <<>>
        /\ volumeSizes' = <<>>
     \/ \E forms \in [1..Len(daemon) -> DFForms] :
          /\ dfOutput' = << DFOutput(daemon, forms) >>
          /\ volumeSizes' = << parseDockerDFOutput(DFOutput(daemon, forms)) >>
  /\ ppc' = "loop"
  /\ pi' = 1
  /\ UNCHANGED << engineVars, matchVars, daemon, sizeLines, yamlVars >>

\* One round of LoadVolumes' loop over volumes.Volumes.
LoadVolumeStep ==
  /\ ppc = "loop"
  /\ UNCHANGED partVars
  /\ pi <= Len(daemon)
  /\ dockerVolumes' =
       IF LoadVolume(volumeSizes, daemon[pi]).skip THEN dockerVolumes
       ELSE {v \in dockerVolumes : v.Name # daemon[pi].Name}
            \cup {LoadVolume(volumeSizes, daemon[pi]).info}
  /\ pi' = pi + 1
  /\ UNCHANGED << engineVars, mpc, mi, offered, picks, parts, cands, stdin, ppc,
                  loadVars, sizeLines, yamlVars >>

\* LoadVolumes returns the map.
LoadReturn ==
  /\ ppc = "loop"
  /\ UNCHANGED partVars
  /\ pi > Len(daemon)
  /\ ppc' = "done"
  /\ UNCHANGED << engineVars, matchVars, pi, loadVars, sizeLines, yamlVars >>

NextLoad ==
  \/ ListVolumes
  \/ ListVolumesError
  \/ GetVolumeSizes
  \/ LoadVolumeStep
  \/ LoadReturn

SpecLoad == InitLoad /\ [][NextLoad]_vars

(***************************************************************************)
(* The matcher's compose context (package compose, VolumeMatcher).         *)
(***************************************************************************)
\* strings.HasSuffix
HasSuffix(s, suf) ==
  Len(suf) <= Len(s) /\ SubSeq(s, Len(s) - Len(suf) + 1, Len(s)) = suf

\* The orders in which `range` may visit the keys of a Go map.
IterationOrders(keys) ==
  {f \in [1..Cardinality(keys) -> keys] :
     \A i, j \in 1..Cardinality(keys) : f[i] = f[j] => i = j}

ComposeCandidates ==
  << "docker-compose.yml", "docker-compose.yaml", "compose.yml", "compose.yaml" >>

\* compose.Service, with the key it has in ComposeFile.Services
Service(name, volumes) == [name |-> name, Volumes |-> volumes]

ServicePool ==
  << Service("web", << <<"a","p","p",":","/","s","r","v">>,
                       <<".","/","c",":","/","c">> >>),
     Service("db",  << <<"d","b",":","/","d",":","r","o">>,
                       <<"d","a","t","a">>,
                       <<"e",":","/","e">> >>) >>

\* What the directory holds: its base name, which compose file names exist,
\* and whether the file can be read and is well-formed YAML.
ComposeDirs ==
  {[base |-> <<"M","y","A","p","p">>, names |-> names, readable |-> r,
    wellFormed |-> w, services |-> SubSeq(ServicePool, 1, n)] :
     names \in {{}, {"compose.yml"}, {"docker-compose.yaml", "compose.yaml"}},
     r \in BOOLEAN, w \in BOOLEAN, n \in 0..Len(ServicePool)}

FindComposeFile(dir) ==
  LET hits == {i \in 1..Len(ComposeCandidates) : ComposeCandidates[i] \in dir.names}
  IN  IF hits = {}
      THEN [path |-> "", err |-> "no docker-compose file found"]
      ELSE [path |-> ComposeCandidates[CHOOSE i \in hits : \A j \in hits : i <= j],
            err |-> ""]

ParseComposeFile(dir, filePath) ==
  [projectName |-> ToLower(dir.base),
   compose |-> IF dir.readable /\ dir.wellFormed
               THEN << [Services |-> dir.services] >> ELSE <<>>,
   err |-> IF ~dir.readable THEN "failed to read compose file"
           ELSE IF ~dir.wellFormed THEN "failed to parse compose file"
           ELSE ""]

generateDockerVolumeName(project, volumeName) == project \o <<"_">> \o volumeName

\* <<>> for nil, else <<mapping>>
parseVolumeSpec(project, serviceName, volumeSpec) ==
  LET specParts == Split(volumeSpec, ":")
  IN  IF Len(specParts) < 2 THEN <<>>
      ELSE IF \/ HasPrefix(specParts[1], <<"/">>)
              \/ HasPrefix(specParts[1], <<".", "/">>)
              \/ HasPrefix(specParts[1], <<".", ".", "/">>)
      THEN <<>>
      ELSE << [ServiceName |-> serviceName,
               VolumeName |-> specParts[1],
               DockerVolume |-> generateDockerVolumeName(project, specParts[1]),
               MountPath |-> specParts[2]] >>

RECURSIVE ServiceMappings(_, _, _)
ServiceMappings(project, service, i) ==
  IF i > Len(service.Volumes) THEN <<>>
  ELSE parseVolumeSpec(project, service.name, service.Volumes[i])
       \o ServiceMappings(project, service, i + 1)

\* The services are visited in the order ord of the map's keys.
RECURSIVE ExtractVolumeMappings(_, _, _, _)
ExtractVolumeMappings(project, services, ord, i) ==
  IF i > Len(ord) THEN <<>>
  ELSE ServiceMappings(project, services[ord[i]], 1)
       \o ExtractVolumeMappings(project, services, ord, i + 1)

\* A LoadComposeContext that hands its callee's error to main.
LoadComposeContextStrict(mappings, project, dir, ord) ==
  LET found  == FindComposeFile(dir)
      parsed == ParseComposeFile(dir, found.path)
  IN  IF found.err # ""
      THEN [ret |-> found.err, volumeMappings |-> mappings, projectName |-> project]
      ELSE IF parsed.err # ""
      THEN [ret |-> parsed.err, volumeMappings |-> mappings,
            projectName |-> parsed.projectName]
      ELSE [ret |-> "nil",
            volumeMappings |->
              ExtractVolumeMappings(parsed.projectName, parsed.compose[1].Services,
                                    ord, 1),
            projectName |-> parsed.projectName]

\* What LoadComposeContext returns and leaves in the matcher and its parser.
LoadComposeContext(mappings, project, dir, ord) ==
  LET found  == FindComposeFile(dir)
      parsed == ParseComposeFile(dir, found.path)
  IN  IF found.err # ""
      THEN [ret |-> "nil", volumeMappings |-> mappings, projectName |-> project]
      ELSE IF parsed.err # ""
      THEN [ret |-> "nil", volumeMappings |-> mappings,
            projectName |-> parsed.projectName]
      ELSE [ret |-> "nil",
            volumeMappings |->
              ExtractVolumeMappings(parsed.projectName, parsed.compose[1].Services,
                                    ord, 1),
            projectName |-> parsed.projectName]

calculateComposeMatchScore(volumeName, dockerVolumeName) ==
  LET vol  == ToLower(volumeName)
      dock == ToLower(dockerVolumeName)
  IN  (IF Contains(dock, vol) THEN 3 ELSE 0)
      + (IF HasSuffix(dock, vol) THEN 2 ELSE 0)
      + (IF Contains(dock, <<"_">> \o vol) \/ Contains(dock, <<"-">> \o vol)
         THEN 4 ELSE 0)

\* The loop of findFuzzyMatchForCompose over the map's keys in the order given.
RECURSIVE FuzzyScan(_, _, _, _, _)
FuzzyScan(order, volumeName, i, bestMatch, bestScore) ==
  IF i > Len(order) THEN bestMatch
  ELSE LET score == calculateComposeMatchScore(volumeName, order[i])
       IN  IF score > bestScore /\ score > 0
           THEN FuzzyScan(order, volumeName, i + 1, order[i], score)
           ELSE FuzzyScan(order, volumeName, i + 1, bestMatch, bestScore)

findFuzzyMatchForCompose(volumes, order, volumeName) ==
  LET bestMatch == FuzzyScan(order, volumeName, 1, <<>>, 0)
  IN  IF bestMatch # <<>>
      THEN << CHOOSE v \in volumes : v.Name = bestMatch >>
      ELSE NilVolume

InitCompose ==
  /\ WaitOff
  /\ nodeLines = <<>>
  /\ MainOff
  /\ worker = NoWorker
  /\ EngineOff
  /\ PrepOff
  /\ files = <<>>
  /\ pvcs = <<>>
  /\ trail = <<>>
  /\ issued = <<>>
  /\ dockerVolumes \in SUBSET {VolumePool[k] : k \in 1..Len(VolumePool)}
  /\ mpc = "off"
  /\ mi = 0
  /\ offered = <<>>
  /\ picks = <<>>
  /\ parts = <<>>
  /\ cands = <<>>
  /\ stdin = NoStdin
  /\ composeDir \in ComposeDirs
  /\ cpc = "load"
  /\ projectName = <<>>
  /\ volumeMappings = <<>>
  /\ composeRet = <<>>
  /\ fuzzy = NoFuzzy

\* main calls LoadComposeContext(directory).
LoadComposeContextCall ==
  /\ cpc = "load"
  /\ \E ord \in IterationOrders(1..Len(composeDir.services)) :
       LET r == LoadComposeContext(volumeMappings, projectName, composeDir, ord)
       IN  /\ volumeMappings' = r.volumeMappings
           /\ projectName' = r.projectName
           /\ composeRet' = << r.ret >>
  /\ cpc' = "loaded"
  /\ UNCHANGED << engineVars, matchVars, prepVars, waitVars, nodeLines, mainVars,
                  composeDir, fuzzy, worker >>

\* findFuzzyMatchForCompose is called for the volume name of a mapping.
FuzzyMatchCall ==
  /\ cpc = "loaded"
  /\ \E k \in 1..Len(volumeMappings),
        order \in IterationOrders({v.Name : v \in dockerVolumes}) :
       fuzzy' = [volumeName |-> volumeMappings[k].VolumeName,
                 order |-> order,
                 match |-> findFuzzyMatchForCompose(dockerVolumes, order,
                                                    volumeMappings[k].VolumeName)]
  /\ UNCHANGED << engineVars, matchVars, prepVars, waitVars, nodeLines, mainVars,
                  composeDir, cpc, projectName, volumeMappings, composeRet,
                  worker >>

NextCompose ==
  \/ LoadComposeContextCall
  \/ FuzzyMatchCall

SpecCompose == InitCompose /\ [][NextCompose]_vars

(***************************************************************************)
(* The steps whose callee errors are only warnings: LoadVolumes, the       *)
(* compose context and the engine, each from its own start.                *)
(***************************************************************************)
InitSoft == Init \/ InitLoad \/ InitCompose

NextSoft ==
  \/ ListVolumes
  \/ ListVolumesError
  \/ GetVolumeSizes
  \/ LoadVolumeStep
  \/ LoadReturn
  \/ LoadComposeContextCall
  \/ FuzzyMatchCall
  \/ StartMigration
  \/ SkipItem
  \/ FinishMigration
  \/ CreatePVC
  \/ TimeoutPVC
  \/ PollPVC
  \/ GetNodes
  \/ SelectNode
  \/ SelectNodeReadError
  \/ CreatePod
  \/ TimeoutPod
  \/ PollPod
  \/ ShowPodLogs
  \/ DeletePod
  \/ DryRun

SpecSoft == InitSoft /\ [][NextSoft]_vars

(***************************************************************************)
(* The two wait loops on their own, from the moment the context with the   *)
(* deadline is created.                                                    *)
(***************************************************************************)
WaitCeiling(kind) == IF kind = "pvc" THEN PVCTimeout ELSE PodTimeout

WaitResults(kind) == IF kind = "pvc" THEN PVCPollResults ELSE PodPollResults

\* What the loop does with the result of one status query.
WaitStep(kind, eng, res) ==
  IF kind = "pvc" THEN WaitForPVCBoundStep(eng, res)
  ELSE WaitForPodCompletionStep(res)

InitWait ==
  /\ engine \in {"A", "B"}
  /\ namespace = "default"
  /\ execute = TRUE
  /\ files = <<>>
  /\ pvcs = <<>>
  /\ trail = <<>>
  /\ issued = <<>>
  /\ pc = "off"
  /\ idx = 0
  /\ elapsed = 0
  /\ polls = 0
  /\ lastPoll = NoPoll
  /\ nodes = <<>>
  /\ defaultNode = <<>>
  /\ cur = NoCur
  /\ lastCall = NoCall
  /\ result = "none"
  /\ err = <<>>
  /\ out = <<>>
  /\ dryOut = <<>>
  /\ MatcherOff
  /\ PrepOff
  /\ wkind \in {"pvc", "pod"}
  /\ wpc = "polling"
  /\ wpolls = 0
  /\ welapsed = 0
  /\ wlast = "none"
  /\ wphases = <<>>
  /\ nodeLines = <<>>
  /\ MainOff
  /\ ComposeOff
  /\ worker = NoWorker

\* One turn of the loop before the deadline: the select takes the default
\* branch, the status is queried, and the loop returns or sleeps.
WaitPoll ==
  /\ wpc = "polling"
  /\ welapsed < WaitCeiling(wkind)
  /\ \E res \in WaitResults(wkind), d \in CmdDurations :
       LET step == WaitStep(wkind, engine, res)
       IN  /\ wpolls' = wpolls + 1
           /\ wlast' = res
           /\ wphases' = IF Len(wphases) < MaxHistory THEN Append(wphases, res)
                         ELSE wphases
           /\ CASE step \in {"bound", "succeeded"} ->
                     /\ wpc' = "ok"
                     /\ UNCHANGED welapsed
                [] step = "failed" ->
                     /\ wpc' = "failed"
                     /\ UNCHANGED welapsed
                [] OTHER ->
                     /\ welapsed' = Min(welapsed + d + Interval, WaitCeiling(wkind))
                     /\ UNCHANGED wpc
  /\ UNCHANGED << engineVars, matchVars, prepVars, wkind, nodeLines, mainVars,
                  composeVars, worker >>

\* The deadline has passed when the loop comes round: the timeout error.
WaitTimeout ==
  /\ wpc = "polling"
  /\ welapsed >= WaitCeiling(wkind)
  /\ wpc' = "timeout"
  /\ UNCHANGED << engineVars, matchVars, prepVars, wkind, wpolls, welapsed,
                  wlast, wphases, nodeLines, mainVars, composeVars, worker >>

NextWait ==
  \/ WaitPoll
  \/ WaitTimeout

SpecWait == InitWait /\ [][NextWait]_vars

\* Every status query returns and the loop keeps running.
FairSpecWait == SpecWait /\ WF_vars(NextWait)

(***************************************************************************)
(* The worker pod of one item and copyData's wait for it.                  *)
(***************************************************************************)
\* What the source directory holds: nothing, files, or only dot files (which
\* `ls -A` lists and the glob /docker-data/* does not match).
WorkerSources == {"empty", "files", "dotfiles"}

Cmd(text, status) == [cmd |-> text, status |-> status]

\* Faulty variant: the script stops at the cp that failed and exits with its
\* status.
WorkerScriptStrict(source, cpOk) ==
  LET cp == IF source = "files" /\ cpOk THEN 0 ELSE 1
      ran == << Cmd("ls -la /docker-data/", 0), Cmd("ls -la /pvc-data/", 0) >>
             \o (IF source # "empty"
                 THEN << Cmd("echo Copying data...", 0),
                         Cmd("cp -av /docker-data/* /pvc-data/", cp) >>
                      \o (IF cp # 0 THEN <<>>
                          ELSE << Cmd("echo Copy completed", 0),
                                  Cmd("ls -la /pvc-data/", 0),
                                  Cmd("echo Migration pod completed", 0) >>)
                 ELSE << Cmd("echo Source directory is empty", 0),
                         Cmd("ls -la /pvc-data/", 0),
                         Cmd("echo Migration pod completed", 0) >>)
  IN  [ran |-> ran, exit |-> << ran[Len(ran)].status >>]

\* The pod's shell script: the commands it runs with their statuses, and the
\* status the shell exits with, that of the last command run.
WorkerScript(source, cpOk) ==
  LET cp == IF source = "files" /\ cpOk THEN 0 ELSE 1
      ran == << Cmd("ls -la /docker-data/", 0), Cmd("ls -la /pvc-data/", 0) >>
             \o (IF source # "empty"
                 THEN << Cmd("echo Copying data...", 0),
                         Cmd("cp -av /docker-data/* /pvc-data/", cp) >>
                      \o (IF cp # 0
                          THEN << Cmd("echo No files to copy or copy failed", 0) >>
                          ELSE <<>>)
                      \o << Cmd("echo Copy completed", 0) >>
                 ELSE << Cmd("echo Source directory is empty", 0) >>)
             \o << Cmd("ls -la /pvc-data/", 0),
                   Cmd("echo Migration pod completed", 0) >>
  IN  [ran |-> ran, exit |-> << ran[Len(ran)].status >>]

\* The phase of a pod with restartPolicy Never and one container.
PodPhase(w) ==
  IF w.at = "pending" THEN "Pending"
  ELSE IF w.at = "running" THEN "Running"
  ELSE IF w.exit = <<0>> THEN "Succeeded"
  ELSE "Failed"

InitWorker ==
  /\ engine \in {"A", "B"}
  /\ namespace = "default"
  /\ execute = TRUE
  /\ files = <<>>
  /\ pvcs = <<>>
  /\ trail = <<>>
  /\ issued = <<>>
  /\ pc = "off"
  /\ idx = 0
  /\ elapsed = 0
  /\ polls = 0
  /\ lastPoll = NoPoll
  /\ nodes = <<>>
  /\ defaultNode = <<>>
  /\ cur = NoCur
  /\ lastCall = NoCall
  /\ result = "none"
  /\ err = <<>>
  /\ out = <<>>
  /\ dryOut = <<>>
  /\ MatcherOff
  /\ PrepOff
  /\ wkind = "pod"
  /\ wpc = "polling"
  /\ wpolls = 0
  /\ welapsed = 0
  /\ wlast = "none"
  /\ wphases = <<>>
  /\ nodeLines = <<>>
  /\ MainOff
  /\ ComposeOff
  /\ \E source \in WorkerSources, cpOk \in BOOLEAN :
       worker = [source |-> source, cpOk |-> cpOk, at |-> "pending", ran |-> <<>>,
                 exit |-> <<>>]

\* The container starts.
WorkerStart ==
  /\ worker.at = "pending"
  /\ worker' = [worker EXCEPT !.at = "running"]
  /\ UNCHANGED << engineVars, matchVars, prepVars, waitVars, nodeLines, mainVars,
                  composeVars >>

\* The script runs to its end and the container exits.
WorkerExit ==
  /\ worker.at = "running"
  /\ worker' = [worker EXCEPT !.at = "exited",
                              !.ran = WorkerScript(worker.source, worker.cpOk).ran,
                              !.exit = WorkerScript(worker.source, worker.cpOk).exit]
  /\ UNCHANGED << engineVars, matchVars, prepVars, waitVars, nodeLines, mainVars,
                  composeVars >>

\* One turn of waitForPodCompletion: the query fails or returns the phase the
\* pod is in.
WorkerPoll ==
  /\ wpc = "polling"
  /\ welapsed < WaitCeiling(wkind)
  /\ \E res \in {"error", PodPhase(worker)}, d \in CmdDurations :
       LET step == WaitStep(wkind, engine, res)
       IN  /\ wpolls' = wpolls + 1
           /\ wlast' = res
           /\ CASE step \in {"bound", "succeeded"} ->
                     /\ wpc' = "ok"
                     /\ UNCHANGED welapsed
                [] step = "failed" ->
                     /\ wpc' = "failed"
                     /\ UNCHANGED welapsed
                [] OTHER ->
                     /\ welapsed' = Min(welapsed + d + Interval, WaitCeiling(wkind))
                     /\ UNCHANGED wpc
  /\ UNCHANGED << engineVars, matchVars, prepVars, wkind, wphases, nodeLines,
                  mainVars, composeVars, worker >>

NextWorker ==
  \/ WorkerStart
  \/ WorkerExit
  \/ WorkerPoll
  \/ WaitTimeout

SpecWorker == InitWorker /\ [][NextWorker]_vars

(***************************************************************************)
(* getCurrentNodeName on its own, from the node list kubectl printed.      *)
(***************************************************************************)
InitNode ==
  /\ engine = "A"
  /\ namespace = "default"
  /\ execute = TRUE
  /\ files = <<>>
  /\ pvcs = <<>>
  /\ trail = <<>>
  /\ issued = <<>>
  /\ pc = "selectNode"
  /\ idx = 0
  /\ elapsed = 0
  /\ polls = 0
  /\ lastPoll = NoPoll
  /\ \E list \in NodeLists \ {<<>>}, hostname \in Hostnames :
       /\ nodes = list
       /\ defaultNode = findBestDefaultNode(list, hostname)
  /\ cur = NoCur
  /\ lastCall = NoCall
  /\ result = "none"
  /\ err = <<>>
  /\ out = <<>>
  /\ dryOut = <<>>
  /\ MatcherOff
  /\ PrepOff
  /\ WaitOff
  /\ nodeLines = <<>>
  /\ MainOff
  /\ ComposeOff
  /\ worker = NoWorker

\* interactiveNodeSelection: a line is read; the node is returned or the
\* prompt is printed again.
NodeRead ==
  /\ pc = "selectNode"
  /\ Len(nodeLines) < MaxPrompts
  /\ \E line \in NodeInputs :
       /\ nodeLines' = Append(nodeLines, line)
       /\ IF NodeSelect(nodes, defaultNode, line).done
          THEN /\ cur' = [cur EXCEPT !.node = NodeSelect(nodes, defaultNode, line).node]
               /\ pc' = "createPod"
          ELSE UNCHANGED << cur, pc >>
  /\ UNCHANGED << engine, namespace, execute, files, pvcs, idx, elapsed, polls,
                  lastPoll, nodes, defaultNode, trail, issued, lastCall, result,
                  err, out, dryOut >>
  /\ UNCHANGED << matchVars, prepVars, waitVars, mainVars, composeVars, worker >>

\* interactiveNodeSelection: reading stdin fails.
NodeReadError ==
  /\ pc = "selectNode"
  /\ pc' = "returned"
  /\ result' = "error"
  /\ err' = <<"failed to read input">>
  /\ UNCHANGED << engine, namespace, execute, files, pvcs, idx, elapsed, polls,
                  lastPoll, nodes, defaultNode, cur, trail, issued, lastCall,
                  out, dryOut >>
  /\ UNCHANGED << matchVars, prepVars, partVars >>

NextNode ==
  \/ NodeRead
  \/ NodeReadError

SpecNode == InitNode /\ [][NextNode]_vars

(***************************************************************************)
(* InteractiveSetSizes, from the list MatchVolumes returned.               *)
(***************************************************************************)
InitSize ==
  /\ PartsOff
  /\ EngineOff
  /\ MatcherOff
  /\ \E n \in 0..MaxPVCs :
       \E sel \in [1..n -> BOOLEAN] :
         /\ files = [i \in 1..n |-> DeclFile(i, FALSE)]
         /\ pvcs = [i \in 1..n |->
                      [ParseYAMLFiles(files)[i] EXCEPT
                         !.MatchedVolume =
                            IF sel[i] THEN <<Cyc(VolumePool, i)>> ELSE NilVolume]]
         /\ trail = [i \in 1..n |-> <<"Pending">>]
         /\ issued = [i \in 1..n |-> {}]
  /\ ppc = "size"
  /\ pi = 1
  /\ daemon = <<>>
  /\ dfOutput = <<>>
  /\ volumeSizes = <<>>
  /\ sizeLines = <<>>
  /\ disk = <<>>
  /\ disk0 = <<>>

\* One round of InteractiveSetSizes' loop: a line is read and the size set.
SetSize ==
  /\ ppc = "size"
  /\ UNCHANGED partVars
  /\ pi <= Len(pvcs)
  /\ \E line \in SizeInputs :
       /\ pvcs' = [pvcs EXCEPT ![pi].NewSize = ResolveSize(pvcs[pi], line)]
       /\ sizeLines' = Append(sizeLines, line)
  /\ pi' = pi + 1
  /\ UNCHANGED << engine, namespace, execute, files, pc, idx, elapsed, polls,
                  lastPoll, nodes, defaultNode, cur, trail, issued, lastCall,
                  result, err, out, dryOut >>
  /\ UNCHANGED << matchVars, ppc, loadVars, yamlVars >>

\* Reading stdin fails: InteractiveSetSizes returns the error.
SetSizeReadError ==
  /\ ppc = "size"
  /\ UNCHANGED partVars
  /\ pi <= Len(pvcs)
  /\ ppc' = "failed"
  /\ UNCHANGED << engineVars, matchVars, pi, loadVars, sizeLines, yamlVars >>

\* InteractiveSetSizes returns nil.
SetSizesReturn ==
  /\ ppc = "size"
  /\ UNCHANGED partVars
  /\ pi > Len(pvcs)
  /\ ppc' = "sized"
  /\ UNCHANGED << engineVars, matchVars, pi, loadVars, sizeLines, yamlVars >>

NextSize ==
  \/ SetSize
  \/ SetSizeReadError
  \/ SetSizesReturn

SpecSize == InitSize /\ [][NextSize]_vars

(***************************************************************************)
(* Parser.ParseYAMLFiles, as main calls it on the declarations directory.  *)
(***************************************************************************)
\* The directory holds any files: two of them, or two documents of them, may
\* declare the same claim.
InitParse ==
  /\ PartsOff
  /\ EngineOff
  /\ MatcherOff
  /\ files = <<>>
  /\ pvcs = <<>>
  /\ trail = <<>>
  /\ issued = <<>>
  /\ \E n \in 0..MaxPVCs :
       \E claim \in [1..n -> 1..2], ext \in [1..n -> {"yaml", "yml", "txt"}],
          layout \in [1..n -> {"pvc", "svc-pvc"}], sub \in [1..n -> BOOLEAN] :
         disk = [i \in 1..n |-> TextFile(claim[i], sub[i], ext[i], layout[i], SepLine)]
  /\ disk0 = disk
  /\ ppc = "parse"
  /\ pi = 1
  /\ daemon = <<>>
  /\ dfOutput = <<>>
  /\ volumeSizes = <<>>
  /\ sizeLines = <<>>

\* filepath.Walk's callback on the next file: the claims of a .yaml or .yml
\* file are appended to the list.
ParseVisit ==
  /\ ppc = "parse"
  /\ UNCHANGED partVars
  /\ pi <= Len(disk)
  /\ files' = Append(files, Decoded(disk[pi]))
  /\ pvcs' = pvcs \o ParseYAMLFiles(<<Decoded(disk[pi])>>)
  /\ pi' = pi + 1
  /\ UNCHANGED << engine, namespace, execute, pc, idx, elapsed, polls,
                  lastPoll, nodes, defaultNode, cur, trail, issued, lastCall,
                  result, err, out, dryOut >>
  /\ UNCHANGED << matchVars, ppc, loadVars, sizeLines, yamlVars >>

\* The walk reports an error for the file, or os.Open fails: ParseYAMLFiles
\* returns the error.
ParseVisitError ==
  /\ ppc = "parse"
  /\ UNCHANGED partVars
  /\ pi <= Len(disk)
  /\ ppc' = "failed"
  /\ UNCHANGED << engineVars, matchVars, pi, loadVars, sizeLines, yamlVars >>

\* ParseYAMLFiles returns the list.
ParseReturn ==
  /\ ppc = "parse"
  /\ UNCHANGED partVars
  /\ pi > Len(disk)
  /\ ppc' = "parsed"
  /\ UNCHANGED << engineVars, matchVars, pi, loadVars, sizeLines, yamlVars >>

NextParse ==
  \/ ParseVisit
  \/ ParseVisitError
  \/ ParseReturn

SpecParse == InitParse /\ [][NextParse]_vars

(***************************************************************************)
(* Updater.UpdateYAMLFiles, as main calls it after the sizing step.        *)
(***************************************************************************)
NewSizes == << <<"2","G","i">>, <<"5","0","0","M","i">> >>

\* Each file declares its own claim; the list is the one parsed from the
\* directory, with the sizes the sizing step set.
InitUpdate ==
  /\ PartsOff
  /\ EngineOff
  /\ MatcherOff
  /\ \E n \in 0..MaxPVCs :
       \E layout \in [1..n -> Layouts], sep \in [1..n -> {SepLine, SepSpaceLine}],
          size \in [1..n -> 1..Len(NewSizes)] :
         /\ disk = [i \in 1..n |->
                      TextFile(i, FALSE, IF i % 2 = 1 THEN "yaml" ELSE "yml",
                               layout[i], sep[i])]
         /\ files = [i \in 1..n |-> Decoded(disk[i])]
         /\ pvcs = [i \in 1..n |->
                      [ParseYAMLFiles(files)[i] EXCEPT !.NewSize = NewSizes[size[i]]]]
         /\ trail = [i \in 1..n |-> <<"Pending">>]
         /\ issued = [i \in 1..n |-> {}]
  /\ disk0 = disk
  /\ ppc = "update"
  /\ pi = 1
  /\ daemon = <<>>
  /\ dfOutput = <<>>
  /\ volumeSizes = <<>>
  /\ sizeLines = <<>>

\* filepath.Walk's callback on the next file: updateYAMLFile.
UpdateVisit ==
  /\ ppc = "update"
  /\ UNCHANGED partVars
  /\ pi <= Len(disk)
  /\ disk' = [disk EXCEPT
               ![pi].lines = IF disk[pi].ext \in {"yaml", "yml"}
                             THEN updateYAMLFile(disk[pi].lines, pvcs)
                             ELSE disk[pi].lines]
  /\ pi' = pi + 1
  /\ UNCHANGED << engineVars, matchVars, ppc, loadVars, sizeLines, disk0 >>

\* The walk reports an error, or the file cannot be read or written:
\* UpdateYAMLFiles returns the error and the file is as it was.
UpdateVisitError ==
  /\ ppc = "update"
  /\ UNCHANGED partVars
  /\ pi <= Len(disk)
  /\ ppc' = "failed"
  /\ UNCHANGED << engineVars, matchVars, pi, loadVars, sizeLines, yamlVars >>

\* UpdateYAMLFiles returns nil.
UpdateReturn ==
  /\ ppc = "update"
  /\ UNCHANGED partVars
  /\ pi > Len(disk)
  /\ ppc' = "updated"
  /\ UNCHANGED << engineVars, matchVars, pi, loadVars, sizeLines, yamlVars >>

NextUpdate ==
  \/ UpdateVisit
  \/ UpdateVisitError
  \/ UpdateReturn

SpecUpdate == InitUpdate /\ [][NextUpdate]_vars

(***************************************************************************)
(* main: the calls it makes in order, then the engine, then the exit.      *)
(* UpdateYAMLFiles is the walk above; of the other preparation calls only  *)
(* the return, nil or an error, is modelled here.                          *)
(***************************************************************************)
\* Faulty variant: the engine is constructed before the files are rewritten.
MainPhasesRewriteLast ==
  << "flag.Args", "NewClient", "LoadVolumes", "ParseYAMLFiles",
     "LoadComposeContext", "MatchVolumes", "InteractiveSetSizes",
     "PrintSummary", "NewEngine", "UpdateYAMLFiles" >>

MainPhases ==
  << "flag.Args", "NewClient", "LoadVolumes", "ParseYAMLFiles",
     "LoadComposeContext", "MatchVolumes", "InteractiveSetSizes",
     "PrintSummary", "UpdateYAMLFiles", "NewEngine" >>

\* The calls after whose error main calls os.Exit(1).
FatalPhases ==
  { "flag.Args", "NewClient", "LoadVolumes", "ParseYAMLFiles",
    "InteractiveSetSizes", "UpdateYAMLFiles" }

\* Faulty variant: the process ends with 0 whatever StartMigration returned.
ExitCodeZero(exec, res) == 0

\* main's end: os.Exit(1) when StartMigration returned an error, else the
\* return from main.
ExitCode(exec, res) == IF exec /\ res = "error" THEN 1 ELSE 0

InitMain ==
  /\ engine = "B"
  /\ namespace = "default"
  /\ execute \in BOOLEAN
  /\ \E n \in 0..MaxPVCs :
       \E sel \in [1..n -> BOOLEAN], resized \in [1..n -> BOOLEAN] :
         /\ files = [i \in 1..n |-> DeclFile(i, FALSE)]
         /\ disk = [i \in 1..n |->
                      TextFile(i, FALSE, IF i % 2 = 1 THEN "yaml" ELSE "yml",
                               "pvc-svc", SepLine)]
         /\ pvcs = [i \in 1..n |->
                      [ParseYAMLFiles(files)[i] EXCEPT
                         !.MatchedVolume =
                            IF sel[i] THEN <<Cyc(VolumePool, i)>> ELSE NilVolume,
                         !.NewSize = IF resized[i] THEN NewSizes[1]
                                     ELSE ParseYAMLFiles(files)[i].RequestedSize]]
         /\ trail = [i \in 1..n |-> <<"Pending">>]
         /\ issued = [i \in 1..n |-> {}]
  /\ pc = "off"
  /\ idx = 0
  /\ elapsed = 0
  /\ polls = 0
  /\ lastPoll = NoPoll
  /\ nodes = <<>>
  /\ defaultNode = <<>>
  /\ cur = NoCur
  /\ lastCall = NoCall
  /\ result = "none"
  /\ err = <<>>
  /\ out = <<>>
  /\ dryOut = <<>>
  /\ MatcherOff
  /\ disk0 = disk
  /\ ppc = "off"
  /\ pi = 0
  /\ daemon = <<>>
  /\ dfOutput = <<>>
  /\ volumeSizes = <<>>
  /\ sizeLines = <<>>
  /\ WaitOff
  /\ nodeLines = <<>>
  /\ ComposeOff
  /\ worker = NoWorker
  /\ mainAt = 1
  /\ mainFailed = ""
  /\ exit = <<>>

\* The call in hand returns nil, or (LoadComposeContext) an error main only
\* prints: main goes on to the next call.  UpdateYAMLFiles, when it is the
\* next call, starts its walk; when it is the call in hand, it has returned
\* nil.  After NewEngine the engine is ready.
MainStep ==
  /\ exit = <<>>
  /\ mainAt \in 1..Len(MainPhases)
  /\ MainPhases[mainAt] = "UpdateYAMLFiles" => ppc = "updated"
  /\ mainAt' = mainAt + 1
  /\ IF mainAt < Len(MainPhases) /\ MainPhases[mainAt + 1] = "UpdateYAMLFiles"
     THEN ppc' = "update" /\ pi' = 1
     ELSE UNCHANGED << ppc, pi >>
  /\ pc' = IF MainPhases[mainAt] = "NewEngine" THEN "idle" ELSE pc
  /\ namespace' = IF MainPhases[mainAt] = "NewEngine" THEN NewEngine("default")
                  ELSE namespace
  /\ UNCHANGED << engine, execute, files, pvcs, idx, elapsed, polls, lastPoll,
                  nodes, defaultNode, cur, trail, issued, lastCall, result, err,
                  out, dryOut >>
  /\ UNCHANGED << matchVars, loadVars, sizeLines, yamlVars, waitVars, nodeLines,
                  mainFailed, exit, composeVars, worker >>

\* The call in hand returns an error (no directory argument, for flag.Args):
\* main prints it and calls os.Exit(1).
MainFatal ==
  /\ exit = <<>>
  /\ mainAt \in 1..Len(MainPhases)
  /\ MainPhases[mainAt] \in FatalPhases
  /\ MainPhases[mainAt] = "UpdateYAMLFiles" => ppc = "failed"
  /\ mainFailed' = MainPhases[mainAt]
  /\ exit' = <<1>>
  /\ UNCHANGED << engineVars, matchVars, prepVars, waitVars, nodeLines, mainAt,
                  composeVars, worker >>

\* Without --execute main calls DryRun, once.
MainDryRun ==
  /\ exit = <<>>
  /\ mainAt > Len(MainPhases)
  /\ dryOut = <<>>
  /\ DryRun

\* StartMigration or DryRun has returned: os.Exit(1) on an error of
\* StartMigration, else "Process complete!" and the return from main.
MainExit ==
  /\ exit = <<>>
  /\ mainAt > Len(MainPhases)
  /\ IF execute THEN pc = "returned" ELSE dryOut # <<>>
  /\ exit' = <<ExitCode(execute, result)>>
  /\ mainFailed' = IF ExitCode(execute, result) = 0 THEN "" ELSE "StartMigration"
  /\ UNCHANGED << engineVars, matchVars, prepVars, waitVars, nodeLines, mainAt,
                  composeVars, worker >>

NextMain ==
  \/ MainStep
  \/ MainFatal
  \/ UpdateVisit
  \/ UpdateVisitError
  \/ UpdateReturn
  \/ StartMigration
  \/ SkipItem
  \/ FinishMigration
  \/ CreatePVC
  \/ TimeoutPVC
  \/ PollPVC
  \/ CreatePod
  \/ TimeoutPod
  \/ PollPod
  \/ ShowPodLogs
  \/ DeletePod
  \/ MainDryRun
  \/ MainExit

SpecMain == InitMain /\ [][NextMain]_vars

(***************************************************************************)
(* Properties.                                                             *)
(***************************************************************************)
Items == 1..Len(pvcs)

Last(seq) == seq[Len(seq)]

Matched(i) == pvcs[i].MatchedVolume # NilVolume

InTrail(i, state) == \E k \in 1..Len(trail[i]) : trail[i][k] = state

ErrHas(msg) == \E k \in 1..Len(err) : err[k] = msg

\* The item went through its whole lifecycle, or was skipped.
ItemFinished(i) == Last(trail[i]) = "Done" \/ ~Matched(i)

Chain == <<"Pending", "Applied", "Bound", "DataCopied", "Done">>

ValidTrail(t) ==
  \E k \in 1..Len(Chain) :
    \/ t = SubSeq(Chain, 1, k)
    \/ t = SubSeq(Chain, 1, k) \o <<"Failed">>

\* C1: StartMigration works through the list in input order, one item at a
\* time: a control-plane call is always for the item in hand, it is issued
\* only when every earlier item is done or was skipped, and once an item has
\* failed StartMigration has returned an error and no further call is issued.
C1_InOrderAbortOnFailure ==
  [][ /\ (lastCall' # lastCall =>
            /\ lastCall'.item = idx
            /\ result = "none"
            /\ \A i \in 1..(lastCall'.item - 1) : ItemFinished(i))
      /\ ((\E i \in Items : Last(trail'[i]) = "Failed") =>
            /\ result' = "error"
            /\ pc' = "returned")
      /\ ((\E i \in Items : Last(trail[i]) = "Failed") =>
            /\ lastCall' = lastCall
            /\ issued' = issued)
    ]_vars

\* C1 witness: the first of two items with a volume failed after calls were
\* issued for it; nothing was issued for the second.
C1_Witness ==
  /\ Len(pvcs) = 2
  /\ Matched(1) /\ Matched(2)
  /\ Last(trail[1]) = "Failed"
  /\ issued[1] # {}
  /\ issued[2] = {}
  /\ result = "error"

\* C2: every item goes Pending, Applied, Bound, DataCopied, Done in that order
\* (Failed may end it at any point); the bound-wait runs only after the apply
\* succeeded, and the worker pod is submitted only after a status query
\* reported the claim Bound.
C2_LifecycleOrder ==
  /\ \A i \in Items : ValidTrail(trail[i])
  /\ cur.item # 0 =>
       /\ (pc = "waitForPVCBound" \/ "getClaim" \in issued[cur.item]) =>
            cur.apply = "ok"
       /\ InTrail(cur.item, "Applied") => cur.apply = "ok"
       /\ "applyPod" \in issued[cur.item] =>
            /\ cur.bound
            /\ "getClaim" \in issued[cur.item]
            /\ InTrail(cur.item, "Bound")
       /\ InTrail(cur.item, "Bound") => cur.bound

\* C2 witness: the worker pod of an item was submitted.
C2_Witness ==
  /\ cur.item # 0
  /\ "applyPod" \in issued[cur.item]
  /\ Last(trail[cur.item]) = "Done"

\* C3: an item without a selected volume is skipped: no control-plane call is
\* ever issued for it, it never fails the run, and the items after it are
\* migrated all the same (a run that returns nil has every other item Done).
C3_NilVolumeSkipped ==
  /\ \A i \in Items :
       pvcs[i].MatchedVolume = NilVolume =>
         /\ issued[i] = {}
         /\ trail[i] = <<"Pending">>
         /\ lastCall.item # i
  /\ result = "error" =>
       \E j \in Items : pvcs[j].MatchedVolume # NilVolume /\ Last(trail[j]) = "Failed"
  /\ result = "ok" =>
       \A j \in Items : pvcs[j].MatchedVolume # NilVolume => Last(trail[j]) = "Done"

\* C3 witness: the first item was skipped, the second migrated, and
\* StartMigration returned nil.
C3_Witness ==
  /\ Len(pvcs) = 2
  /\ pvcs[1].MatchedVolume = NilVolume
  /\ Last(trail[2]) = "Done"
  /\ result = "ok"

\* C4 (as claimed): the bound-wait ends in exactly one of three ways: success
\* on a query that reports Bound, a timeout error once the ceiling has passed,
\* and at once, with an error, on a query that reports Failed.
C4_BoundWaitThreeEndings ==
  /\ (lastPoll.kind = "pvc" /\ lastPoll.phase = "Bound") =>
       InTrail(cur.item, "Bound")
  /\ (lastPoll.kind = "pvc" /\ lastPoll.phase = "Failed") =>
       /\ pc = "returned"
       /\ result = "error"
       /\ ErrHas("PVC failed to bind")
  /\ ErrHas("timeout waiting for PVC") =>
       /\ elapsed >= PVCTimeout
       /\ lastPoll.phase \notin {"Bound", "Failed"}
  /\ (cur.apply = "ok" /\ pc # "waitForPVCBound") =>
       \/ /\ InTrail(cur.item, "Bound")
          /\ ~ErrHas("timeout waiting for PVC")
          /\ ~ErrHas("PVC failed to bind")
       \/ /\ ~InTrail(cur.item, "Bound")
          /\ ErrHas("timeout waiting for PVC")
          /\ ~ErrHas("PVC failed to bind")
       \/ /\ ~InTrail(cur.item, "Bound")
          /\ ~ErrHas("timeout waiting for PVC")
          /\ ErrHas("PVC failed to bind")

\* C5: when a status query of the worker reports Failed, the item fails with
\* "migration pod failed", StartMigration returns an error, and nothing is
\* issued for any later item.
C5_PodFailedAborts ==
  (lastPoll.kind = "pod" /\ lastPoll.phase = "Failed") =>
    /\ pc = "returned"
    /\ result = "error"
    /\ ErrHas("migration pod failed")
    /\ Last(trail[cur.item]) = "Failed"
    /\ \A j \in Items : j > cur.item => issued[j] = {}

\* C5 witness: the worker of the first of two items with a volume was
\* reported Failed.
C5_Witness ==
  /\ Len(pvcs) = 2
  /\ Matched(1) /\ Matched(2)
  /\ cur.item = 1
  /\ lastPoll = [kind |-> "pod", phase |-> "Failed"]

\* C6: createPVC runs once for an item and is not retried; when it fails, no
\* status query and no worker creation is issued for that item or any later
\* one, and StartMigration returns an error.
C6_ApplyOnceFatal ==
  /\ cur.item # 0 => cur.applies = 1
  /\ cur.apply \in {"failed", "nofile"} =>
       /\ pc = "returned"
       /\ result = "error"
       /\ issued[cur.item] \subseteq {"applyClaim"}
       /\ \A j \in Items : j > cur.item => issued[j] = {}

\* C6 witness: kubectl apply failed for the first of two items with a volume.
C6_Witness ==
  /\ Len(pvcs) = 2
  /\ Matched(1) /\ Matched(2)
  /\ cur.item = 1
  /\ cur.apply = "failed"
  /\ issued[1] = {"applyClaim"}

\* C7: after the worker was reported Succeeded the logs are fetched and then
\* the worker is deleted, in that order; the delete is issued whatever the log
\* fetch returned, and neither failing makes the item fail.
C7_LogsThenDelete ==
  /\ lastCall.op = "logs" =>
       /\ lastPoll = [kind |-> "pod", phase |-> "Succeeded"]
       /\ "deletePod" \notin issued[lastCall.item]
       /\ pc = "deletePod"
       /\ result = "none"
  /\ lastCall.op = "deletePod" =>
       /\ "logs" \in issued[lastCall.item]
       /\ Last(trail[lastCall.item]) = "Done"
  /\ (cur.item # 0 /\ cur.logs # "none") =>
       /\ ~InTrail(cur.item, "Failed")
       /\ pc = "deletePod" \/ cur.delete # "none"
  /\ (cur.item # 0 /\ cur.delete # "none") => Last(trail[cur.item]) = "Done"
  /\ (lastPoll = [kind |-> "pod", phase |-> "Succeeded"] /\ cur.item # 0) =>
       \/ pc = "showPodLogs"
       \/ cur.logs # "none"

\* C7 witness: the log fetch and the delete both failed, and the item is Done.
C7_Witness ==
  /\ cur.item # 0
  /\ cur.logs = "failed"
  /\ cur.delete = "failed"
  /\ Last(trail[cur.item]) = "Done"

\* C8 (as claimed): every worker pod submitted carries a nodeName, the node
\* chosen in node selection for the item.
C8_WorkerPinnedToNode ==
  lastCall.op = "applyPod" =>
    /\ lastCall.pod[1].nodeName # <<>>
    /\ lastCall.pod[1].nodeName = cur.node

\* C9: DryRun issues no control-plane call, leaves every claim as it was, and
\* prints the same lines when it is called again.
C9_DryRunPure ==
  [][ dryOut' # dryOut =>
        /\ pvcs' = pvcs
        /\ issued' = issued
        /\ lastCall' = lastCall
        /\ Len(dryOut) >= 1 => Last(dryOut') = Last(dryOut)
    ]_vars

\* C9 witness: DryRun ran twice on a list with a skipped and a matched item.
C9_Witness ==
  /\ Len(dryOut) = 2
  /\ Len(pvcs) = 2
  /\ ~Matched(1) /\ Matched(2)
  /\ dryOut[1] = dryOut[2]
  /\ Len(dryOut[1]) = 2

\* C10: MatchedVolume is only ever set from the operator's choice on the list
\* offered: a claim not yet prompted for has none, choice 0 gives none, and
\* choice k gives the k-th volume offered, also when one volume is offered.
C10_OnlyOperatorChoice ==
  /\ Len(picks) <= Len(pvcs)
  /\ \A i \in Items :
       IF i <= Len(picks)
       THEN LET choice == Atoi(TrimSpace(picks[i].line))
            IN  /\ choice.ok
                /\ choice.val \in 0..Len(picks[i].offered)
                /\ pvcs[i].MatchedVolume =
                     IF choice.val = 0 THEN NilVolume
                     ELSE <<picks[i].offered[choice.val]>>
       ELSE pvcs[i].MatchedVolume = NilVolume

\* C10 witness: one candidate was found for a claim, it was offered alone, and
\* the operator chose 0: the claim has no volume.
C10_Witness ==
  \E i \in 1..Len(picks) :
    /\ Len(findVolumesContainingPVCName(dockerVolumes, pvcs[i])) = 1
    /\ Len(picks[i].offered) = 1
    /\ Atoi(TrimSpace(picks[i].line)).val = 0
    /\ pvcs[i].MatchedVolume = NilVolume

\* C11 (as claimed): a volume some container uses is never in the inventory
\* LoadVolumes returns, whatever the size inventory command did.
C11_InUseNeverLoaded ==
  \A i \in 1..Len(daemon) :
    daemon[i].refs > 0 => \A v \in dockerVolumes : v.Name # daemon[i].Name

\* C12 (as claimed): after MatchVolumes no two claims have the same volume
\* as MatchedVolume.
C12_VolumeMatchedOnce ==
  mpc = "done" =>
    \A i, j \in Items :
      (i # j /\ Matched(i) /\ Matched(j)) =>
        pvcs[i].MatchedVolume[1].Name # pvcs[j].MatchedVolume[1].Name

\* C14: MatchVolumes changes nothing but MatchedVolume, of the claim in hand
\* only: the list keeps its length and order, every claim its Name, Namespace,
\* RequestedSize and NewSize, the inventory stays as it was, and the only way
\* out is the return of the list (a claim may be left without a volume).
C14_MatchFrame ==
  [][ /\ Len(pvcs') = Len(pvcs)
      /\ \A i \in Items :
           /\ pvcs'[i].Name = pvcs[i].Name
           /\ pvcs'[i].Namespace = pvcs[i].Namespace
           /\ pvcs'[i].RequestedSize = pvcs[i].RequestedSize
           /\ pvcs'[i].NewSize = pvcs[i].NewSize
           /\ pvcs'[i].MatchedVolume # pvcs[i].MatchedVolume => (mpc = "read" /\ i = mi)
      /\ dockerVolumes' = dockerVolumes
      /\ files' = files
      /\ mpc' \in {"match", "read", "done"}
      /\ mpc' = "done" => mi > Len(pvcs)
    ]_vars

\* C14 witness: MatchVolumes returned two claims, the first with a volume the
\* operator chose, the second left without one.
C14_Witness ==
  /\ mpc = "done"
  /\ Len(pvcs) = 2
  /\ Matched(1)
  /\ ~Matched(2)
  /\ dockerVolumes # {}

\* The volumes whose lower-cased name contains one of the parts in hand.
Containing == {v \in dockerVolumes :
                 \E k \in 1..Len(parts) : Contains(ToLower(v.Name), parts[k])}

Range(seq) == {seq[k] : k \in 1..Len(seq)}

\* C15: the list offered for a claim is the whole inventory when discovery
\* found no candidate, and exactly the candidates, each once, when it found
\* some.
C15_OfferedList ==
  mpc = "read" =>
    /\ Len(offered) = Cardinality(Range(offered))
    /\ cands = <<>> => Range(offered) = dockerVolumes
    /\ cands # <<>> => offered = cands
    /\ Range(cands) = Containing

\* C15 witness: no volume of a two-volume inventory is a candidate for the
\* claim in hand, and both are offered.
C15_Witness ==
  /\ mpc = "read"
  /\ cands = <<>>
  /\ Cardinality(dockerVolumes) = 2
  /\ Len(offered) = 2

FirstHyphen(name) ==
  CHOOSE i \in 1..Len(name) : name[i] = "-" /\ \A j \in 1..(i - 1) : name[j] # "-"

\* The name without its first hyphen-delimited segment and that hyphen.
AfterFirstHyphen(name) == SubSeq(name, FirstHyphen(name) + 1, Len(name))

\* C16: for a claim name with a hyphen the cleaned name is the name after its
\* first hyphen: it is the last part (lower-cased), and every part is a piece
\* of it, none of the dropped segment.
C16_FirstSegmentDropped ==
  (mpc = "read" /\ Contains(pvcs[mi].Name, <<"-">>)) =>
    /\ parts # <<>>
    /\ parts[Len(parts)] = ToLower(AfterFirstHyphen(pvcs[mi].Name))
    /\ \A k \in 1..Len(parts) :
         Contains(ToLower(AfterFirstHyphen(pvcs[mi].Name)), parts[k])
    /\ Len(parts[Len(parts)]) = Len(pvcs[mi].Name) - FirstHyphen(pvcs[mi].Name)

\* C16 witness: the parts of svc-app-data have been computed.
C16_Witness ==
  /\ mpc = "read"
  /\ pvcs[mi].Name = ClaimNames[1]
  /\ parts[Len(parts)] = <<"a","p","p","-","d","a","t","a">>

CleanedName(name) ==
  IF Contains(name, <<"-">>) THEN AfterFirstHyphen(name) ELSE name

\* The pieces of the cleaned name between separators sep, longer than one
\* character.
Pieces(name, sep) ==
  {piece \in Range(Split(CleanedName(name), sep)) : Len(piece) > 1}

PartSet(name) == Pieces(name, "-") \cup Pieces(name, "_") \cup {CleanedName(name)}

\* C17: a volume of the inventory is a candidate for the claim in hand exactly
\* when its name, case ignored, contains a piece of the cleaned name split on
\* '-' or split on '_' that is longer than one character, or the cleaned name.
C17_CandidateIff ==
  mpc = "read" =>
    \A v \in dockerVolumes :
      (v \in Range(cands)) <=>
        \E part \in PartSet(pvcs[mi].Name) : Contains(ToLower(v.Name), ToLower(part))

\* C17 witness: for svc-app-data and the whole pool, App-cache and app_data
\* are candidates and web_db is not.
C17_Witness ==
  /\ mpc = "read"
  /\ pvcs[mi].Name = ClaimNames[1]
  /\ Cardinality(dockerVolumes) = 3
  /\ Len(cands) = 2
  /\ cands[1].Name = <<"A","p","p","-","c","a","c","h","e">>
  /\ cands[2].Name = <<"a","p","p","_","d","a","t","a">>

\* The scenario: the inventory is app_data alone, the claim svc-app-data.
C18_Scenario ==
  /\ mpc = "read"
  /\ dockerVolumes = {VolumePool[1]}
  /\ pvcs[mi].Name = ClaimNames[1]

PartMatches(part) == Contains(ToLower(VolumePool[1].Name), part)

\* C18 (as claimed): in the scenario discovery yields app_data, and the parts
\* "data" and "app-data" are both contained in the volume's name.
C18_ScenarioAsClaimed ==
  C18_Scenario =>
    /\ cands = <<VolumePool[1]>>
    /\ <<"d","a","t","a">> \in Range(parts)
    /\ <<"a","p","p","-","d","a","t","a">> \in Range(parts)
    /\ PartMatches(<<"d","a","t","a">>)
    /\ PartMatches(<<"a","p","p","-","d","a","t","a">>)

\* C18 (amended): in the scenario discovery yields app_data; the parts are
\* "app", "data" and "app-data"; "app" and "data" are contained in the
\* volume's name, "app-data" is not.
C18_ScenarioAmended ==
  C18_Scenario =>
    /\ cands = <<VolumePool[1]>>
    /\ offered = <<VolumePool[1]>>
    /\ Range(parts) = { <<"a","p","p">>, <<"d","a","t","a">>,
                        <<"a","p","p","-","d","a","t","a">> }
    /\ {part \in Range(parts) : PartMatches(part)}
         = { <<"a","p","p">>, <<"d","a","t","a">> }

\* C18 witness: the scenario, with app_data found.
C18_Witness ==
  /\ C18_Scenario
  /\ Len(cands) = 1
  /\ parts = << <<"a","p","p">>, <<"d","a","t","a">>,
                <<"a","p","p","-","d","a","t","a">>,
                <<"a","p","p","-","d","a","t","a">> >>

\* C19: the sizing step gives the claim it prompts for, as NewSize, its
\* RequestedSize when the line read is empty or no valid quantity and the line
\* (without the white space around it) when it is a valid quantity; it changes
\* no NewSize of another claim and no Name, Namespace, RequestedSize or
\* MatchedVolume at all, and it returns nil only when every claim is sized.
C19_SizeResolved ==
  [][ /\ Len(pvcs') = Len(pvcs)
      /\ \A i \in Items :
           /\ pvcs'[i].Name = pvcs[i].Name
           /\ pvcs'[i].Namespace = pvcs[i].Namespace
           /\ pvcs'[i].RequestedSize = pvcs[i].RequestedSize
           /\ pvcs'[i].MatchedVolume = pvcs[i].MatchedVolume
           /\ i # Len(sizeLines') => pvcs'[i].NewSize = pvcs[i].NewSize
      /\ sizeLines' = sizeLines => pvcs' = pvcs
      /\ sizeLines' # sizeLines =>
           LET i     == Len(sizeLines')
               input == TrimSpace(sizeLines'[i])
           IN  /\ i = Len(sizeLines) + 1
               /\ i = pi
               /\ input = <<>> => pvcs'[i].NewSize = pvcs[i].RequestedSize
               /\ (input # <<>> /\ isValidSize(input)) => pvcs'[i].NewSize = input
               /\ (input # <<>> /\ ~isValidSize(input)) =>
                    pvcs'[i].NewSize = pvcs[i].RequestedSize
      /\ ppc' = "sized" => Len(sizeLines') = Len(pvcs')
    ]_vars

\* C19 witness: three cases after the sizing step returned: the first claim
\* got the quantity typed, the second kept its requested size on bad input.
C19_Witness ==
  /\ ppc = "sized"
  /\ Len(pvcs) = 2
  /\ sizeLines[1] = <<" ","5","0","0","M","i"," ">>
  /\ pvcs[1].NewSize = <<"5","0","0","M","i">>
  /\ sizeLines[2] = <<"5","G","B">>
  /\ pvcs[2].NewSize = pvcs[2].RequestedSize

\* C13 (as claimed): no two claims of the list ParseYAMLFiles returned have
\* the same name and namespace.
C13_ClaimsUnique ==
  ppc = "parsed" =>
    \A i, j \in 1..Len(pvcs) :
      (pvcs[i].Name = pvcs[j].Name /\ pvcs[i].Namespace = pvcs[j].Namespace)
        => i = j

\* The documents of a file that are not claims, each with its lines.
NonPVCDocuments(lines) ==
  SelectSeq(YAMLDocs(lines),
            LAMBDA seg : HasContent(seg) /\ DecodeDoc(seg).kind # "PersistentVolumeClaim")

\* C20 (as claimed): once a file has been visited by the update, parsing it
\* again gives its claim with the newly set size as requested size, and its
\* documents that are not claims are, line for line, what they were.
C20_RoundTrip ==
  \A f \in 1..Len(disk) :
    (ppc \in {"update", "updated"} /\ f < pi) =>
      /\ \E c \in 1..Len(parseYAMLFile(Decoded(disk[f]))) :
           /\ parseYAMLFile(Decoded(disk[f]))[c].Name = pvcs[f].Name
           /\ parseYAMLFile(Decoded(disk[f]))[c].Namespace = pvcs[f].Namespace
           /\ parseYAMLFile(Decoded(disk[f]))[c].RequestedSize = pvcs[f].NewSize
      /\ NonPVCDocuments(disk[f].lines) = NonPVCDocuments(disk0[f].lines)

\* C21: the bound-wait returns success on the status query that reports Bound
\* and on no other, and issues no query after it returned; when the first
\* three queries report Pending, Pending, Bound it returns success on the
\* third.
C21_BoundOnPollK ==
  [][ wkind = "pvc" =>
        /\ (wpolls' # wpolls /\ wlast' = "Bound") =>
              /\ wpc' = "ok"
              /\ wpolls' = wpolls + 1
        /\ (wpc' = "ok" /\ wpc # "ok") =>
              /\ wlast' = "Bound"
              /\ wpolls' = wpolls + 1
        /\ wpc # "polling" => wpolls' = wpolls
        /\ wphases' = <<"Pending", "Pending", "Bound">> =>
              /\ wpc' = "ok"
              /\ wpolls' = 3
              /\ welapsed' < PVCTimeout
    ]_vars

\* C21 witness: the queries reported Pending, Pending, Bound and the wait
\* returned success after three of them, well before the ceiling.
C21_Witness ==
  /\ wkind = "pvc"
  /\ wphases = <<"Pending", "Pending", "Bound">>
  /\ wpc = "ok"
  /\ wpolls = 3
  /\ welapsed = 2 * Interval

\* The nodes of the list whose name is the input, case aside, and those whose
\* name contains it.
NamedExactly(input) == {k \in 1..Len(nodes) : ToLower(nodes[k]) = ToLower(input)}

NamedLike(input) ==
  {k \in 1..Len(nodes) :
     \E a \in 0..(Len(nodes[k]) - Len(input)) :
       ToLower(SubSeq(nodes[k], a + 1, a + Len(input))) = ToLower(input)}

\* C22: a line read at the node prompt selects nodes[k] for a number k in
\* 1..n, the node of that name (case aside) for a name, the one node that
\* contains it for a substring of exactly one node, and the default node when
\* it is empty; a number out of range, a substring of several nodes and a
\* string no node contains select nothing and the prompt is still open.
C22_NodeSelection ==
  [][ nodeLines' # nodeLines =>
        LET input == TrimSpace(Last(nodeLines'))
            chosen(node) == pc' = "createPod" /\ cur'.node = node
            again == pc' = "selectNode" /\ cur' = cur
        IN  /\ input = <<>> => chosen(defaultNode)
            /\ (input # <<>> /\ Atoi(input).ok) =>
                  IF Atoi(input).val \in 1..Len(nodes)
                  THEN chosen(nodes[Atoi(input).val])
                  ELSE again
            /\ (input # <<>> /\ ~Atoi(input).ok) =>
                  /\ \A k \in NamedExactly(input) : chosen(nodes[k])
                  /\ (NamedExactly(input) = {} /\ Cardinality(NamedLike(input)) = 1) =>
                        \A k \in NamedLike(input) : chosen(nodes[k])
                  /\ (NamedExactly(input) = {} /\ Cardinality(NamedLike(input)) # 1) =>
                        again
    ]_vars

\* C22 witness: with two nodes, a number out of range and then a substring of
\* both were read and selected nothing; the substring of one node selected it.
C22_Witness ==
  /\ nodes = <<NodeA, NodeB>>
  /\ nodeLines = << <<"3">>, <<"k","8","s">>, <<"b">> >>
  /\ pc = "createPod"
  /\ cur.node = NodeB

\* The lines StartMigration printed for item i.
LiveLines(i) == {k \in 1..Len(out) : out[k].item = i}

\* StartMigration's loop is past item i.
LivePast(i) == execute /\ pc # "idle" /\ idx > i

\* C23 (as claimed): a claim without a volume is printed with the tag SKIP by
\* every DryRun and, in execute mode, by StartMigration or the summary.
C23_SkipInBothModes ==
  \A i \in Items :
    pvcs[i].MatchedVolume = NilVolume =>
      /\ \A d \in 1..Len(dryOut) :
           \E k \in 1..Len(dryOut[d]) :
             dryOut[d][k].i = i /\ dryOut[d][k].tag = "SKIP"
      /\ LivePast(i) =>
           \/ \E k \in LiveLines(i) : out[k].line = "SKIP"
           \/ PrintSummary(pvcs)[i].source = "SKIP"

\* C23 (amended): a claim without a volume is printed with the tag SKIP, and
\* with no other, by every DryRun; in execute mode StartMigration prints
\* "Skipping" for it and nothing else, and the summary prints "No matching
\* volume found" in either mode; this at every position of the list.
C23_SkipRendered ==
  \A i \in Items :
    pvcs[i].MatchedVolume = NilVolume =>
      /\ \A d \in 1..Len(dryOut) :
           /\ \E k \in 1..Len(dryOut[d]) :
                dryOut[d][k].i = i /\ dryOut[d][k].tag = "SKIP"
           /\ \A k \in 1..Len(dryOut[d]) :
                dryOut[d][k].i = i => dryOut[d][k].tag = "SKIP"
      /\ \A k \in LiveLines(i) : out[k].line = "Skipping"
      /\ LivePast(i) => LiveLines(i) # {}
      /\ PrintSummary(pvcs)[i].source = "No matching volume found"

\* C23 witness: in execute mode the first item was migrated and the second,
\* without a volume, was passed with the line "Skipping".
C23_Witness ==
  /\ Len(pvcs) = 2
  /\ Matched(1) /\ ~Matched(2)
  /\ result = "ok"
  /\ \E k \in LiveLines(2) : out[k].line = "Skipping"

\* C24: the process ends with a non-zero code as soon as a call main treats
\* as fatal returns an error (no argument, Docker client, inventory load,
\* declaration parsing, sizing input, declaration rewrite) and when
\* StartMigration returns an error, and then nothing further runs; it ends
\* with zero only when StartMigration returned nil, every item with a volume
\* being Done, or when DryRun returned.
C24_ExitCode ==
  /\ exit # <<>> => exit[1] \in {0, 1}
  /\ mainFailed # "" => exit = <<1>>
  /\ (mainFailed \in FatalPhases) =>
       /\ MainPhases[mainAt] = mainFailed
       /\ pc = "off"
       /\ \A i \in Items : issued[i] = {}
       /\ dryOut = <<>>
  /\ (result = "error" /\ exit # <<>>) => exit = <<1>>
  /\ exit = <<1>> => mainFailed \in FatalPhases \/ (execute /\ result = "error")
  /\ exit = <<0>> =>
       /\ mainAt > Len(MainPhases)
       /\ IF execute
          THEN /\ result = "ok"
               /\ pc = "returned"
               /\ \A i \in Items : Matched(i) => Last(trail[i]) = "Done"
          ELSE /\ Len(dryOut) = 1
               /\ \A i \in Items : issued[i] = {}

\* C24 witness: in execute mode the worker of the second item failed and the
\* process ended with code 1.
C24_Witness ==
  /\ execute
  /\ Len(pvcs) = 2
  /\ Last(trail[1]) = "Done"
  /\ Last(trail[2]) = "Failed"
  /\ exit = <<1>>
  /\ mainFailed = "StartMigration"

\* C25: the conditions the code treats as warnings stay warnings.  A failed
\* `docker system df` leaves LoadVolumes on its way to returning the map, and
\* LoadVolumes fails only from the volume listing; LoadComposeContext returns
\* nil whether or not a compose file was found, read and parsed; and an item
\* whose log fetch or worker delete failed is not Failed and StartMigration
\* has not returned an error.
C25_WarningsOnly ==
  [][ /\ ppc = "df" => ppc' = "loop"
      /\ ppc' = "failed" => ppc \in {"list", "failed"}
      /\ composeRet' # <<>> => composeRet' = <<"nil">>
      /\ (cur'.item # 0 /\ (cur'.logs = "failed" \/ cur'.delete = "failed")) =>
            /\ \A k \in 1..Len(trail'[cur'.item]) : trail'[cur'.item][k] # "Failed"
            /\ result' # "error" ]_vars

\* C25 witness: `docker system df` failed and LoadVolumes returned an
\* inventory.
C25_Witness ==
  /\ ppc = "done"
  /\ daemon # <<>>
  /\ dfOutput = <<>>
  /\ volumeSizes = <<>>
  /\ dockerVolumes # {}

\* C26: once the engine exists no step of it, in execute mode or in dry-run
\* mode, up to and including the step that returns success or an error,
\* changes the claim list: its length, any claim's Name, Namespace,
\* RequestedSize, NewSize or MatchedVolume, or any field of a matched volume.
C26_ClaimsReadOnly ==
  [][ pc # "off" =>
        /\ Len(pvcs') = Len(pvcs)
        /\ \A i \in 1..Len(pvcs) :
             /\ pvcs'[i].Name = pvcs[i].Name
             /\ pvcs'[i].Namespace = pvcs[i].Namespace
             /\ pvcs'[i].RequestedSize = pvcs[i].RequestedSize
             /\ pvcs'[i].NewSize = pvcs[i].NewSize
             /\ (pvcs'[i].MatchedVolume = NilVolume) = (pvcs[i].MatchedVolume = NilVolume)
             /\ pvcs[i].MatchedVolume # NilVolume =>
                  /\ pvcs'[i].MatchedVolume[1].Name = pvcs[i].MatchedVolume[1].Name
                  /\ pvcs'[i].MatchedVolume[1].Mountpoint
                       = pvcs[i].MatchedVolume[1].Mountpoint
                  /\ pvcs'[i].MatchedVolume[1].Size = pvcs[i].MatchedVolume[1].Size
                  /\ pvcs'[i].MatchedVolume[1].SizeHuman
                       = pvcs[i].MatchedVolume[1].SizeHuman
    ]_vars

\* C26 witness: StartMigration returned an error after one matched item was
\* migrated and a later matched item failed.
C26_Witness ==
  /\ pc = "returned"
  /\ result = "error"
  /\ Len(pvcs) = 2
  /\ Matched(1) /\ Matched(2)
  /\ Last(trail[1]) = "Done"
  /\ InTrail(2, "Failed")

\* C27: the worker's script runs cp exactly when the source directory is not
\* empty, and exits with status 0 whether the source was empty, the copy
\* succeeded or the copy failed; so the worker is never reported Failed and
\* the wait for it never returns the failure error.
C27_WorkerExitsZero ==
  /\ worker.at = "exited" =>
       /\ worker.exit = <<0>>
       /\ (\E k \in 1..Len(worker.ran) :
              worker.ran[k].cmd = "cp -av /docker-data/* /pvc-data/")
            <=> worker.source # "empty"
  /\ worker.at # "off" =>
       /\ wlast # "Failed"
       /\ wpc # "failed"

\* C27 witness: the copy failed, the worker was reported Succeeded and the
\* wait returned success.
C27_Witness ==
  /\ worker.at = "exited"
  /\ worker.source = "files"
  /\ ~worker.cpOk
  /\ \E k \in 1..Len(worker.ran) :
       worker.ran[k].cmd = "cp -av /docker-data/* /pvc-data/" /\ worker.ran[k].status = 1
  /\ wlast = "Succeeded"
  /\ wpc = "ok"

\* The volumes of the inventory with the highest positive score for the alias.
TopScored(volumes, volumeName) ==
  {v \in volumes :
     /\ calculateComposeMatchScore(volumeName, v.Name) > 0
     /\ \A u \in volumes : calculateComposeMatchScore(volumeName, u.Name)
                              <= calculateComposeMatchScore(volumeName, v.Name)}

\* C28 (as claimed): whatever order the inventory is visited in, the fuzzy
\* compose match returns nil when no volume scores above zero, and otherwise
\* the volume with the highest score, the one first by name among equal scores.
C28_FuzzyDeterministic ==
  fuzzy # NoFuzzy =>
    LET top == TopScored(dockerVolumes, fuzzy.volumeName)
    IN  IF top = {} THEN fuzzy.match = NilVolume
        ELSE /\ fuzzy.match # NilVolume
             /\ fuzzy.match[1] \in top
             /\ \A u \in top : u.Name # fuzzy.match[1].Name =>
                                  StrLess(fuzzy.match[1].Name, u.Name)

\* C29: in either wait loop a status query that fails leaves the loop running
\* after a sleep of Interval seconds; the loop never issues more than
\* ceiling / Interval queries; and, every query returning, it ends in success,
\* in the failure of an explicit phase, or in the timeout error.
C29_WaitTerminates ==
  /\ [][ (wpolls' = wpolls + 1 /\ wlast' = "error") =>
            /\ wpc' = "polling"
            /\ welapsed' >= Min(welapsed + Interval, WaitCeiling(wkind)) ]_vars
  /\ [](wpolls <= WaitCeiling(wkind) \div Interval)
  /\ <>(wpc \in {"ok", "failed", "timeout"})

\* C29 witness: a wait whose first query failed went on to the last query the
\* deadline allows and ended in the timeout error.
C29_Witness ==
  /\ wpc = "timeout"
  /\ wphases # <<>> /\ wphases[1] = "error"
  /\ wpolls = WaitCeiling(wkind) \div Interval

\* C30: the log fetch and the delete of an item's worker are issued only after
\* the worker was observed Succeeded, for an item that is not Failed.  When the
\* wait for a created worker ends with phase Failed or in the timeout error,
\* the item is Failed, StartMigration has returned the error, and neither the
\* log fetch nor the delete was issued for that item.
C30_WorkerKeptOnFailure ==
  /\ \A i \in 1..Len(pvcs) :
       ("logs" \in issued[i] \/ "deletePod" \in issued[i]) =>
         /\ InTrail(i, "DataCopied")
         /\ ~InTrail(i, "Failed")
  /\ (/\ cur.item # 0
      /\ cur.pod # <<>>
      /\ \/ lastPoll = [kind |-> "pod", phase |-> "Failed"]
         \/ \E k \in 1..Len(err) : err[k] = "timeout waiting for pod") =>
       /\ InTrail(cur.item, "Failed")
       /\ pc = "returned"
       /\ result = "error"
       /\ "logs" \notin issued[cur.item]
       /\ "deletePod" \notin issued[cur.item]
       /\ cur.logs = "none" /\ cur.delete = "none"

\* C30 witness: the first item's worker was deleted after it succeeded; the
\* second item's worker was created and reported Failed, and is left behind.
C30_Witness ==
  /\ pc = "returned"
  /\ result = "error"
  /\ cur.item = 2
  /\ cur.pod # <<>>
  /\ lastPoll = [kind |-> "pod", phase |-> "Failed"]
  /\ "deletePod" \in issued[1]
  /\ "applyPod" \in issued[2]
  /\ "deletePod" \notin issued[2]

\* C31: the volume prompt returns only in a step that read a line which,
\* trimmed, is an integer in 0..n for the n volumes offered, and then the
\* claim's MatchedVolume is nil or one of the volumes offered; a step that read
\* any other line, and a step whose read failed, leaves the claims as they
\* were and the prompt open; and once the input is at its end the prompt
\* stays open for ever.
C31_PromptReturns ==
  /\ [][ LET read   == mpc = "read" /\ (picks' # picks \/ stdin'.last # stdin.last)
             choice == Atoi(TrimSpace(stdin'.last[1]))
         IN  /\ (mpc = "read" /\ mpc' # "read") => read
             /\ read =>
                  IF choice.ok /\ choice.val \in 0..Len(offered)
                  THEN /\ mpc' = "match"
                       /\ mi' = mi + 1
                       /\ \/ pvcs'[mi].MatchedVolume = NilVolume
                          \/ \E k \in 1..Len(offered) :
                               pvcs'[mi].MatchedVolume = <<offered[k]>>
                  ELSE /\ mpc' = "read"
                       /\ pvcs' = pvcs
                       /\ pvcs[mi].MatchedVolume = NilVolume
             /\ (mpc = "read" /\ ~read) =>
                  /\ mpc' = "read"
                  /\ pvcs' = pvcs
                  /\ pvcs[mi].MatchedVolume = NilVolume
             /\ stdin.eof => stdin'.eof ]_vars
  /\ [](stdin.eof => [](mpc = "read" /\ pvcs[mi].MatchedVolume = NilVolume))

\* C31 witness: a line that is no number in range was read for the second
\* claim, then the input came to its end, and the prompt is still open.
C31_Witness ==
  /\ mpc = "read"
  /\ mi = 2
  /\ Len(offered) = 2
  /\ stdin.eof
  /\ stdin.last = << <<"3">> >>
  /\ pvcs[2].MatchedVolume = NilVolume

\* C32: while the node prompt is open the list offered is not empty and the
\* default is one of its nodes; the node the prompt returns is one of the
\* nodes offered; and when the node list cannot be fetched or is empty, or the
\* read at the prompt fails, the item fails and StartMigration returns the
\* error with no worker pod submitted for the item.
C32_NodeFromList ==
  [][ /\ pc = "selectNode" =>
            /\ nodes # <<>>
            /\ \E k \in 1..Len(nodes) : nodes[k] = defaultNode
      /\ (cur'.node # cur.node /\ cur'.node # <<>>) =>
            /\ pc = "selectNode"
            /\ \E k \in 1..Len(nodes) : nodes[k] = cur'.node
      /\ (\E k \in 1..Len(err') : err'[k] = "failed to get current node name") =>
            /\ pc' = "returned"
            /\ result' = "error"
            /\ cur'.pod = <<>>
            /\ "applyPod" \notin issued'[cur'.item]
            /\ \E k \in 1..Len(trail'[cur'.item]) : trail'[cur'.item][k] = "Failed"
      /\ \A i \in 1..Len(issued) :
            ("applyPod" \in issued'[i] /\ "applyPod" \notin issued[i] /\ engine = "A") =>
              cur.node # <<>>
    ]_vars

\* C32 witness: the first item's worker was submitted on a node chosen at the
\* prompt; for the second item the control plane reported no nodes, and the
\* run ended with no worker submitted for it.
C32_Witness ==
  /\ engine = "A"
  /\ pc = "returned"
  /\ cur.item = 2
  /\ \E k \in 1..Len(err) : err[k] = "no Kubernetes nodes found"
  /\ "applyPod" \in issued[1]
  /\ "getNodes" \in issued[2]
  /\ "applyPod" \notin issued[2]

\* Every file is as UpdateYAMLFiles leaves it for the claim list.
Rewritten ==
  /\ Len(disk) = Len(disk0)
  /\ \A i \in 1..Len(disk) : disk[i].lines = updateYAMLFile(disk0[i].lines, pvcs)

\* C33: the declaration files are rewritten only while main is in its call of
\* UpdateYAMLFiles, before the engine exists, before any control-plane call
\* and before the dry run; when that call returns nil every file is the
\* rewrite of what it was for the resolved sizes, and from then on neither
\* the files nor the claims change; and the engine exists, a control-plane
\* call was made or the dry run has printed only after that return, in
\* dry-run mode as in execute mode.
C33_RewriteBeforeBranch ==
  [][ /\ disk' # disk =>
            /\ mainAt \in 1..Len(MainPhases)
            /\ MainPhases[mainAt] = "UpdateYAMLFiles"
            /\ pc = "off"
            /\ lastCall = NoCall
            /\ dryOut = <<>>
      /\ (ppc # "updated" /\ ppc' = "updated") =>
            /\ Rewritten
            /\ disk' = disk /\ disk0' = disk0 /\ pvcs' = pvcs
      /\ ppc = "updated" =>
            /\ ppc' = "updated"
            /\ disk' = disk /\ disk0' = disk0 /\ pvcs' = pvcs
      /\ (pc' # "off" \/ lastCall' # NoCall \/ dryOut' # <<>>) => ppc' = "updated"
    ]_vars

\* C33 witness: a run without --execute ended with 0, the dry run printed its
\* lines, and a declaration file on disk carries the new size.
C33_Witness ==
  /\ ~execute
  /\ exit = <<0>>
  /\ dryOut # <<>>
  /\ ppc = "updated"
  /\ Rewritten
  /\ disk # disk0

\* The control-plane operations that take a namespace.
Namespaced == {"applyClaim", "getClaim", "applyPod", "getPod", "logs", "deletePod"}

\* C34: every namespaced control-plane call for an item targets one
\* namespace: the engine's migration namespace in the Engine that applies the
\* declaration file, the claim's declared namespace in the Engine that
\* builds the claim's manifest; the worker's manifest names that namespace,
\* and the worker is polled, read and deleted in the namespace it was created
\* in.
C34_OneNamespacePerItem ==
  /\ lastCall.op \in Namespaced =>
       /\ lastCall.item \in 1..Len(pvcs)
       /\ engine = "A" => lastCall.ns = namespace
       /\ engine = "B" => lastCall.ns = pvcs[lastCall.item].Namespace
       /\ lastCall.op = "applyPod" => lastCall.pod[1].namespace = lastCall.ns
  /\ (lastCall.op \in {"getPod", "logs", "deletePod"} /\ cur.item = lastCall.item) =>
       /\ cur.pod # <<>>
       /\ cur.pod[1].namespace = lastCall.ns

\* C34 witness: the Engine that builds the manifest deleted the worker of a
\* claim declared in namespace prod, in prod.
C34_Witness ==
  /\ engine = "B"
  /\ lastCall.op = "deletePod"
  /\ lastCall.ns = "prod"
  /\ pvcs[lastCall.item].Namespace = "prod"
  /\ {"applyClaim", "getClaim", "applyPod", "getPod", "logs"} \subseteq issued[lastCall.item]

\* The number of offered volumes whose name is below the given one.
Rank(name) == Cardinality({j \in 1..Len(offered) : StrLess(offered[j].Name, name)})

\* C35: the list offered for a claim, the candidates or the whole inventory,
\* is in strictly ascending order of name, so no volume is listed twice, and
\* the volume behind choice k is the one with k - 1 offered names below its
\* own: which volume a number denotes depends on the names alone.
C35_OfferedSorted ==
  mpc = "read" =>
    /\ \A j \in 1..(Len(offered) - 1) : StrLess(offered[j].Name, offered[j + 1].Name)
    /\ \A j, k \in 1..Len(offered) : offered[j] = offered[k] => j = k
    /\ \A k \in 1..Len(offered) : Rank(offered[k].Name) = k - 1
    /\ Range(offered) = (IF Containing = {} THEN dockerVolumes ELSE Containing)

\* C35 witness: two candidates are offered for the claim in hand, the lower
\* name as choice 1.
C35_Witness ==
  /\ mpc = "read"
  /\ cands # <<>>
  /\ Len(offered) = 2
  /\ StrLess(offered[1].Name, offered[2].Name)

\* The file declares a claim with the claim's name and namespace.
Declares(file, pvc) ==
  \E k \in 1..Len(parseYAMLFile(file)) :
    /\ parseYAMLFile(file)[k].Name = pvc.Name
    /\ parseYAMLFile(file)[k].Namespace = pvc.Namespace

\* C36 (as claimed): when the apply step looks up the declaration file of a
\* parsed claim it finds one, whether the claim's file is at the top level of
\* the declarations directory or in a subdirectory, and the file applied
\* declares a claim with that name and namespace.
C36_LookupFindsFile ==
  (engine = "A" /\ cur.item # 0) =>
    /\ cur.apply # "nofile"
    /\ (lastCall.op = "applyClaim" /\ lastCall.item = cur.item) =>
         /\ lastCall.file \in 1..Len(files)
         /\ Declares(files[lastCall.file], pvcs[cur.item])

\* The step takes item i's lifecycle to the given state.
Gains(i, state) == ~InTrail(i, state) /\ state \in Range(trail'[i])

\* C37: an item becomes Applied only by an apply that succeeded for it, Bound
\* only by a status query of its claim that reported Bound, DataCopied only
\* by a status query of its worker that reported Succeeded; StartMigration
\* returns nil only when every item with a volume has passed all three, and
\* "Successfully migrated" is printed for an item only after its worker was
\* seen Succeeded.
C37_SuccessMeansObserved ==
  [][ /\ \A i \in 1..Len(pvcs) :
            /\ Gains(i, "Applied") =>
                 /\ lastCall'.op = "applyClaim" /\ lastCall'.item = i
                 /\ cur'.item = i /\ cur'.apply = "ok"
            /\ Gains(i, "Bound") =>
                 /\ lastCall'.op = "getClaim" /\ lastCall'.item = i
                 /\ lastPoll' = [kind |-> "pvc", phase |-> "Bound"]
                 /\ InTrail(i, "Applied")
            /\ Gains(i, "DataCopied") =>
                 /\ lastCall'.op = "getPod" /\ lastCall'.item = i
                 /\ lastPoll' = [kind |-> "pod", phase |-> "Succeeded"]
                 /\ InTrail(i, "Bound")
      /\ (result # "ok" /\ result' = "ok") =>
            \A i \in 1..Len(pvcs) :
              pvcs[i].MatchedVolume # NilVolume =>
                /\ InTrail(i, "Applied") /\ InTrail(i, "Bound")
                /\ InTrail(i, "DataCopied")
                /\ {"applyClaim", "getClaim", "getPod"} \subseteq issued[i]
      /\ \A k \in (Len(out) + 1)..Len(out') :
            out'[k].line = "Successfully migrated" =>
              /\ InTrail(out'[k].item, "DataCopied")
              /\ "getPod" \in issued[out'[k].item]
    ]_vars

\* C37 witness: StartMigration returned nil after two items with a volume,
\* each reported as successfully migrated.
C37_Witness ==
  /\ result = "ok"
  /\ Len(pvcs) = 2
  /\ Matched(1) /\ Matched(2)
  /\ \A i \in 1..2 :
       /\ InTrail(i, "DataCopied")
       /\ \E k \in 1..Len(out) : out[k] = Line("Successfully migrated", i)
  /\ lastPoll = [kind |-> "pod", phase |-> "Succeeded"]

=============================================================================
